---- MODULE Spec2Model ----
(***************************************************************************)
(* Model of elf_diff's Binary (src/src/elf_diff/binary.py): the           *)
(* construction of a Binary from the textual output of the binutils.       *)
(*                                                                         *)
(* Text is modelled at character level: a Python str is a sequence of      *)
(* one-character strings, so that the regular expressions, str.splitlines  *)
(* and int() are computed on the characters, as the code computes them.    *)
(* An Optional value is None == << >> or Some(x) == << x >>.               *)
(***************************************************************************)
EXTENDS Integers, Sequences, FiniteSets, TLC

\* ------------------------------------------------------------------------
\* Characters and the character classes of Python's re module
\* ------------------------------------------------------------------------
DigitChars == <<"0", "1", "2", "3", "4", "5", "6", "7", "8", "9">>

Digit == {"0", "1", "2", "3", "4", "5", "6", "7", "8", "9"}

LowerHex == Digit \cup {"a", "b", "c", "d", "e", "f"}

HexDigit == LowerHex \cup {"A", "B", "C", "D", "E", "F"}

Lower == {"a", "b", "c", "d", "e", "f", "g", "h", "i", "j", "k", "l", "m",
          "n", "o", "p", "q", "r", "s", "t", "u", "v", "w", "x", "y", "z"}

Upper == {"A", "B", "C", "D", "E", "F", "G", "H", "I", "J", "K", "L", "M",
          "N", "O", "P", "Q", "R", "S", "T", "U", "V", "W", "X", "Y", "Z"}

\* Text is over the characters U+0001..U+00FF.
\* The characters above U+007F that str.isalnum() holds for
Latin1Alnum ==
    {"ª", "²", "³", "µ", "¹", "º", "¼", "½", "¾", "À", "Á", "Â",
     "Ã", "Ä", "Å", "Æ", "Ç", "È", "É", "Ê", "Ë", "Ì", "Í", "Î",
     "Ï", "Ð", "Ñ", "Ò", "Ó", "Ô", "Õ", "Ö", "Ø", "Ù", "Ú", "Û",
     "Ü", "Ý", "Þ", "ß", "à", "á", "â", "ã", "ä", "å", "æ", "ç",
     "è", "é", "ê", "ë", "ì", "í", "î", "ï", "ð", "ñ", "ò", "ó",
     "ô", "õ", "ö", "ø", "ù", "ú", "û", "ü", "ý", "þ", "ÿ"}

\* \w of a str pattern
WordChar == Digit \cup Lower \cup Upper \cup {"_"} \cup Latin1Alnum

\* \s of a str pattern, the characters str.isspace() holds for:
\* U+0009..U+000D, U+001C..U+001F, U+0020, U+0085, U+00A0
WhiteSpace == {" ", "\t", "\n", "\r", "\f", "", "", "", "", "", "", " "}

\* the line boundaries of str.splitlines(), besides "\r\n":
\* U+000A..U+000D, U+001C..U+001E, U+0085
LineBoundary == {"\n", "\r", "\f", "", "", "", "", ""}

\* the blanks int() skips around a numeral: those of \s but U+001C..U+001F
IntSpace == {" ", "\t", "\n", "\r", "\f", "", "", " "}

NL == "\n"

None == << >>

Some(x) == << x >>

\* ------------------------------------------------------------------------
\* String helpers
\* ------------------------------------------------------------------------
\* the number of consecutive characters of s from position i on that are in C
Span(s, i, C) ==
    IF i > Len(s) THEN 0
    ELSE CHOOSE n \in 0..(Len(s) - i + 1) :
             /\ i + n > Len(s) \/ s[i + n] \notin C
             /\ \A j \in i..(i + n - 1) : s[j] \in C

\* the number of consecutive characters of s from position i on that are not in C
SpanNot(s, i, C) ==
    IF i > Len(s) THEN 0
    ELSE CHOOSE n \in 0..(Len(s) - i + 1) :
             /\ i + n > Len(s) \/ s[i + n] \in C
             /\ \A j \in i..(i + n - 1) : s[j] \notin C

\* the literal lit stands in s at position i
HasAt(s, i, lit) ==
    /\ i >= 1
    /\ i + Len(lit) - 1 <= Len(s)
    /\ SubSeq(s, i, i + Len(lit) - 1) = lit

Min(a, b) == IF a <= b THEN a ELSE b

\* The pieces of a pattern, each read at position p of s: the position after
\* the piece, or 0 when the piece does not match there (or p is 0 already)
\* a literal
Lit(s, p, lit) == IF p > 0 /\ HasAt(s, p, lit) THEN p + Len(lit) ELSE 0

\* [C]*
Many(s, p, C) == IF p > 0 THEN p + Span(s, p, C) ELSE 0

\* [C]+
Many1(s, p, C) == IF p > 0 /\ Span(s, p, C) > 0 THEN p + Span(s, p, C) ELSE 0

RECURSIVE Concat(_)
\* the concatenation of a sequence of strings
Concat(ss) == IF ss = << >> THEN << >> ELSE Head(ss) \o Concat(Tail(ss))

RECURSIVE splitlines(_)
\* the first line of a text, which has n characters, and the lines after it
splitlines_from(text, n) ==
    IF n = Len(text) THEN << text >>
    ELSE << SubSeq(text, 1, n) >>
             \o splitlines(SubSeq(text, n + (IF HasAt(text, n + 1, << "\r", "\n" >>) THEN 2 ELSE 1) + 1,
                                  Len(text)))

\* str.splitlines(): the lines of a text, without their line ends; "\r\n"
\* is one line end; a final line end opens no further line
splitlines(text) ==
    IF text = << >> THEN << >> ELSE splitlines_from(text, SpanNot(text, 1, LineBoundary))

DigitVal(c) == (CHOOSE i \in 1..10 : DigitChars[i] = c) - 1

\* sys.get_int_max_str_digits(): the most digits int() converts
int_max_str_digits == 4300

InvalidLiteral == "ValueError: invalid literal for int()"

ExceedsLimit == "ValueError: Exceeds the limit (4300 digits) for integer string conversion"

\* the index at which int(s) starts to scan digits: after the blanks and a sign
IntStart(s) ==
    LET i == Span(s, 1, IntSpace) + 1
    IN  IF i <= Len(s) /\ s[i] \in {"+", "-"} THEN i + 1 ELSE i

\* the numeral int(s) scans: the digits and underscores from there on
IntDigits(s) ==
    SubSeq(s, IntStart(s), IntStart(s) + Span(s, IntStart(s), Digit \cup {"_"}) - 1)

\* what stands after the numeral
IntRest(s) == SubSeq(s, IntStart(s) + Len(IntDigits(s)), Len(s))

\* digits, with single underscores between digits
IsDigits(d) ==
    /\ Len(d) > 0
    /\ d[1] \in Digit
    /\ d[Len(d)] \in Digit
    /\ \A i \in 1..Len(d) : d[i] \in Digit \cup {"_"}
    /\ \A i \in 1..(Len(d) - 1) : ~(d[i] = "_" /\ d[i + 1] = "_")

\* the number of digits of a numeral, its underscores not counted
DigitCount(d) == Cardinality({i \in 1..Len(d) : d[i] \in Digit})

\* the ValueError that int(s) raises, or None: the scan of the numeral
\* rejects a misplaced underscore or no digit at all, then the numeral is
\* held against the digit limit (leading zeros count), and only then
\* must the rest of s be blank
int_error(s) ==
    IF ~IsDigits(IntDigits(s)) THEN Some(InvalidLiteral)
    ELSE IF DigitCount(IntDigits(s)) > int_max_str_digits THEN Some(ExceedsLimit)
    ELSE IF \E i \in 1..Len(IntRest(s)) : IntRest(s)[i] \notin IntSpace
    THEN Some(InvalidLiteral)
    ELSE None

\* int(s) returns: s is a decimal numeral (blanks, a sign, digits with single
\* underscores between them, blanks) of at most int_max_str_digits digits
IsDecimal(s) == int_error(s) = None

RECURSIVE SignificantValue(_)
\* the value of a numeral that has no leading zero
SignificantValue(d) ==
    IF Len(d) = 0 THEN 0
    ELSE IF d[Len(d)] = "_" THEN SignificantValue(SubSeq(d, 1, Len(d) - 1))
    ELSE 10 * SignificantValue(SubSeq(d, 1, Len(d) - 1)) + DigitVal(d[Len(d)])

\* the value of a numeral
DigitsValue(d) == SignificantValue(SubSeq(d, Span(d, 1, {"0", "_"}) + 1, Len(d)))

\* the value int(s) returns when it raises nothing (int_error(s) = None)
int(s) ==
    IF IntStart(s) > 1 /\ s[IntStart(s) - 1] = "-"
    THEN 0 - DigitsValue(IntDigits(s))
    ELSE DigitsValue(IntDigits(s))

RECURSIVE Dec(_)
\* the decimal numeral a tool prints for n
Dec(n) ==
    IF n < 10 THEN << DigitChars[n + 1] >>
    ELSE Dec(n \div 10) \o << DigitChars[(n % 10) + 1] >>

\* a text made of lines, each ended by a line end
RECURSIVE Text(_)
Text(lines) ==
    IF lines = << >> THEN << >> ELSE Head(lines) \o << NL >> \o Text(Tail(lines))

\* ------------------------------------------------------------------------
\* The regular expressions of the size and format phases
\* ------------------------------------------------------------------------
S_file_format == <<"f", "i", "l", "e", " ", "f", "o", "r", "m", "a", "t">>

\* re.match(r"file format\s+(\S+)", text[i:]) : group 1 or None
FileFormatAt(text, i) ==
    LET p == i + Len(S_file_format)
        w == Span(text, p, WhiteSpace)
        t == SpanNot(text, p + w, WhiteSpace)
    IN  IF HasAt(text, i, S_file_format) /\ w > 0 /\ t > 0
        THEN Some(SubSeq(text, p + w, p + w + t - 1))
        ELSE None

\* re.search(r"file format\s+(\S+)", text): group 1 of the leftmost match
file_format_re_search(text) ==
    LET hits == {i \in 1..Len(text) : FileFormatAt(text, i) # None}
    IN  IF hits = {} THEN None
        ELSE FileFormatAt(text, CHOOSE i \in hits : \A j \in hits : i <= j)

\* re.match(r"^\s*([0-9]+)\s+([0-9]+)\s+([0-9]+)\s+([0-9]+)", line):
\* the four groups, or None
size_re_match(line) ==
    LET b1 == Many(line, 1, WhiteSpace)
        e1 == Many1(line, b1, Digit)
        b2 == Many1(line, e1, WhiteSpace)
        e2 == Many1(line, b2, Digit)
        b3 == Many1(line, e2, WhiteSpace)
        e3 == Many1(line, b3, Digit)
        b4 == Many1(line, e3, WhiteSpace)
        e4 == Many1(line, b4, Digit)
    IN  IF e4 > 0
        THEN Some(<< SubSeq(line, b1, e1 - 1), SubSeq(line, b2, e2 - 1),
                     SubSeq(line, b3, e3 - 1), SubSeq(line, b4, e4 - 1) >>)
        ELSE None

\* ------------------------------------------------------------------------
\* The regular expressions of the size-listing, disassembly and debug phases
\* ------------------------------------------------------------------------
CharIn(s, i, C) == i >= 1 /\ i <= Len(s) /\ s[i] \in C

MaxOf(S) == CHOOSE x \in S : \A y \in S : y <= x

\* re.match(r"^[0-9A-Fa-f]+\s([0-9A-Fa-f]+)\s(\w)\s(.+)", line):
\* << size, kind, name >> or None
nm_regex_match(line) ==
    LET a  == Span(line, 1, HexDigit)
        p2 == a + 2
        s  == Span(line, p2, HexDigit)
        pt == p2 + s + 1
        pn == pt + 2
    IN  IF /\ a > 0
           /\ CharIn(line, a + 1, WhiteSpace)
           /\ s > 0
           /\ CharIn(line, p2 + s, WhiteSpace)
           /\ CharIn(line, pt, WordChar)
           /\ CharIn(line, pt + 1, WhiteSpace)
           /\ pn <= Len(line)
        THEN Some(<< SubSeq(line, p2, p2 + s - 1),
                     << line[pt] >>,
                     SubSeq(line, pn, Len(line)) >>)
        ELSE None

\* re.match("^(0x)?[0-9A-Fa-f]+ <(.+)>:", line): group 2 or None
header_line_re_match(line) ==
    LET s0   == IF HasAt(line, 1, <<"0", "x">>) THEN 3 ELSE 1
        h    == Span(line, s0, HexDigit)
        p    == s0 + h
        ends == {e \in (p + 3)..(Len(line) - 1) : line[e] = ">" /\ line[e + 1] = ":"}
    IN  IF h > 0 /\ HasAt(line, p, <<" ", "<">>) /\ ends # {}
        THEN Some(SubSeq(line, p + 2, MaxOf(ends) - 1))
        ELSE None

RECURSIVE ByteEnds(_, _)
\* the positions at which a repetition of (?:\s*[0-9a-fA-F]{2})+ started at
\* position i can end
ByteEnds(line, i) ==
    LET p == i + Span(line, i, WhiteSpace)
    IN  IF CharIn(line, p, HexDigit) /\ CharIn(line, p + 1, HexDigit)
        THEN {p + 1} \cup ByteEnds(line, p + 2)
        ELSE {}

\* re.match(r"^\s*[0-9A-Fa-f]+:\s*((?:\s*[0-9a-fA-F]{2})+)\s+(.*)\s*", line):
\* group 2 or None
instruction_line_re_match(line) ==
    LET p0    == 1 + Span(line, 1, WhiteSpace)
        h     == Span(line, p0, HexDigit)
        ends  == ByteEnds(line, p0 + h + 1)
        valid == {e \in ends : CharIn(line, e + 1, WhiteSpace)}
    IN  IF h > 0 /\ CharIn(line, p0 + h, {":"}) /\ valid # {}
        THEN LET e == MaxOf(valid)
                 w == Span(line, e + 1, WhiteSpace)
             IN  Some(SubSeq(line, e + 1 + w, Len(line)))
        ELSE None

S_retq == <<"r", "e", "t", "q">>

S_ret == <<"r", "e", "t">>

S_elf64_x86_64 == <<"e", "l", "f", "6", "4", "-", "x", "8", "6", "-", "6", "4">>

\* SymbolCollector._unifyX86InstructionLine:
\* re.sub(r"(^.*\sc3\s+)retq(.*)$", r"\1ret\2", line)
unifyX86InstructionLine(line) ==
    LET RetqAt(i) == i + 3 + Span(line, i + 3, WhiteSpace)
        hits == {i \in 1..Len(line) :
                    /\ line[i] \in WhiteSpace
                    /\ HasAt(line, i + 1, <<"c", "3">>)
                    /\ CharIn(line, i + 3, WhiteSpace)
                    /\ HasAt(line, RetqAt(i), S_retq)}
    IN  IF hits = {} THEN line
        ELSE LET q == RetqAt(MaxOf(hits))
             IN  SubSeq(line, 1, q - 1) \o S_ret \o SubSeq(line, q + 4, Len(line))

SOURCE_CODE_START_TAG ==
    <<".", ".", ".", "E", "D", "_", "S", "O", "U", "R", "C", "E", "_",
      "S", "T", "A", "R", "T", ".", ".", ".">>

SOURCE_CODE_END_TAG ==
    <<".", ".", ".", "E", "D", "_", "S", "O", "U", "R", "C", "E", "_",
      "E", "N", "D", ".", ".", ".">>

\* source text without the markers
preHighlightSourceCode_plain(src) == src

\* preHighlightSourceCode
preHighlightSourceCode(src) == SOURCE_CODE_START_TAG \o src \o SOURCE_CODE_END_TAG

\* str.isspace()
isspace(s) == Len(s) > 0 /\ \A i \in 1..Len(s) : s[i] \in WhiteSpace

S_Abbrev_Number == <<"A", "b", "b", "r", "e", "v", " ", "N", "u", "m", "b", "e", "r", ":">>

\* re.match(r"\s*<[0-9a-f]+>\s*<[0-9a-f]+>:\s+Abbrev Number:\s*(\d+)\s+\((\w+)\).*", line):
\* << id, tag >> or None
dbg_header_line_regex_match(line) ==
    LET depth  == Lit(line, Many1(line, Lit(line, Many(line, 1, WhiteSpace), <<"<">>), LowerHex),
                      <<">">>)
        offset == Lit(line, Many1(line, Lit(line, Many(line, depth, WhiteSpace), <<"<">>),
                                  LowerHex), <<">", ":">>)
        id_b   == Many(line, Lit(line, Many1(line, offset, WhiteSpace), S_Abbrev_Number),
                       WhiteSpace)
        id_e   == Many1(line, id_b, Digit)
        tag_b  == Lit(line, Many1(line, id_e, WhiteSpace), <<"(">>)
        tag_e  == Many1(line, tag_b, WordChar)
    IN  IF Lit(line, tag_e, <<")">>) > 0
        THEN Some(<< SubSeq(line, id_b, id_e - 1), SubSeq(line, tag_b, tag_e - 1) >>)
        ELSE None

\* (\S+)\s*:\s*(\S.*) read at position q of line, (\S+) taking k characters:
\* the position of group 2, or 0
InfoAt(line, q, k) ==
    LET colon == IF k = SpanNot(line, q, WhiteSpace) THEN Many(line, q + k, WhiteSpace)
                 ELSE q + k
        info  == Many(line, Lit(line, colon, <<":">>), WhiteSpace)
    IN  IF info > 0 /\ info <= Len(line) THEN info ELSE 0

\* re.match(r"\s*<[0-9a-f]+>\s+(\S+)\s*:\s*(\S.*)", line): << tag, add_info >> or
\* None. (\S+) is greedy: the longest prefix of the run of non-blanks after
\* which \s*:\s*\S still matches.
dbg_info_line_regex_match(line) ==
    LET q  == Many1(line,
                    Lit(line, Many1(line, Lit(line, Many(line, 1, WhiteSpace), <<"<">>),
                                    LowerHex), <<">">>),
                    WhiteSpace)
        ks == IF q = 0 THEN {}
              ELSE {k \in 1..SpanNot(line, q, WhiteSpace) : InfoAt(line, q, k) > 0}
    IN  IF ks # {}
        THEN Some(<< SubSeq(line, q, q + MaxOf(ks) - 1),
                     SubSeq(line, InfoAt(line, q, MaxOf(ks)), Len(line)) >>)
        ELSE None

\* re.match(r".*\s+(\S+)", s): group 1 or None (_name_regex, _source_file_regex)
last_token_regex_match(s) ==
    LET js == {j \in 1..(Len(s) - 1) : s[j] \in WhiteSpace /\ s[j + 1] \notin WhiteSpace}
    IN  IF js = {} THEN None
        ELSE LET j == MaxOf(js)
             IN  Some(SubSeq(s, j + 1, j + SpanNot(s, j + 1, WhiteSpace)))

\* ------------------------------------------------------------------------
\* re.compile(pattern) and re.match(compiled, s) for the patterns of the
\* caller (symbol_selection_regex, symbol_exclusion_regex)
\* ------------------------------------------------------------------------
\* the characters by code point, U+0001..U+00FF; U+0060 cannot stand in a
\* string here and has "" in its place
CodePoints ==
  << "", "", "", "", "", "", "", "",
     "\t", "\n", "", "\f", "\r", "", "", "",
     "", "", "", "", "", "", "", "",
     "", "", "", "", "", "", "", " ",
     "!", "\"", "#", "$", "%", "&", "'", "(",
     ")", "*", "+", ",", "-", ".", "/", "0",
     "1", "2", "3", "4", "5", "6", "7", "8",
     "9", ":", ";", "<", "=", ">", "?", "@",
     "A", "B", "C", "D", "E", "F", "G", "H",
     "I", "J", "K", "L", "M", "N", "O", "P",
     "Q", "R", "S", "T", "U", "V", "W", "X",
     "Y", "Z", "[", "\\", "]", "^", "_", "",
     "a", "b", "c", "d", "e", "f", "g", "h",
     "i", "j", "k", "l", "m", "n", "o", "p",
     "q", "r", "s", "t", "u", "v", "w", "x",
     "y", "z", "{", "|", "}", "~", "", "",
     "", "", "", "", "", "", "", "",
     "", "", "", "", "", "", "", "",
     "", "", "", "", "", "", "", "",
     "", "", "", "", "", "", "", " ",
     "¡", "¢", "£", "¤", "¥", "¦", "§", "¨",
     "©", "ª", "«", "¬", "­", "®", "¯", "°",
     "±", "²", "³", "´", "µ", "¶", "·", "¸",
     "¹", "º", "»", "¼", "½", "¾", "¿", "À",
     "Á", "Â", "Ã", "Ä", "Å", "Æ", "Ç", "È",
     "É", "Ê", "Ë", "Ì", "Í", "Î", "Ï", "Ð",
     "Ñ", "Ò", "Ó", "Ô", "Õ", "Ö", "×", "Ø",
     "Ù", "Ú", "Û", "Ü", "Ý", "Þ", "ß", "à",
     "á", "â", "ã", "ä", "å", "æ", "ç", "è",
     "é", "ê", "ë", "ì", "í", "î", "ï", "ð",
     "ñ", "ò", "ó", "ô", "õ", "ö", "÷", "ø",
     "ù", "ú", "û", "ü", "ý", "þ", "ÿ" >>

AllChars == {CodePoints[k] : k \in 1..255} \ {""}

ord(c) == CHOOSE k \in 1..255 : CodePoints[k] = c

RECURSIVE str(_)
\* the string of a sequence of characters
str(cs) == IF cs = << >> THEN "" ELSE Head(cs) \o str(Tail(cs))

\* stands for the largest count of a repeat, 4294967295
MAXREPEAT == -1

SPECIAL_CHARS == {".", "\\", "[", "{", "(", ")", "*", "+", "?", "^", "$", "|"}

REPEAT_CHARS == {"*", "+", "?", "{"}

ASCIILETTERS == Lower \cup Upper

OCTDIGITS == {"0", "1", "2", "3", "4", "5", "6", "7"}

\* the message of patterns whose syntax is not modelled: groups opened by
\* "(?" other than "(?:", the escapes \x \u \U \N and those of digits,
\* possessive repeats, counts of ten digits
NotModelled == "pattern outside the modelled syntax"

\* the nodes of a parsed pattern
Node(op, set, neg, lo, hi, kids) ==
    [op |-> op, set |-> set, neg |-> neg, lo |-> lo, hi |-> hi, kids |-> kids]

\* a character of the set (neg = FALSE) or not of the set (neg = TRUE)
In(set, neg) == Node("in", set, neg, 0, 0, << >>)

LITERAL(c) == In({c}, FALSE)

\* an assertion: at_beginning, at_end, at_beginning_string, at_end_string,
\* at_boundary, at_non_boundary
AT(which) == Node(which, {}, FALSE, 0, 0, << >>)

IsAT(node) ==
    node.op \in {"at_beginning", "at_end", "at_beginning_string", "at_end_string",
                 "at_boundary", "at_non_boundary"}

SubPattern(items) == Node("subpattern", {}, FALSE, 0, 0, items)

BRANCH(items) == Node("branch", {}, FALSE, 0, 0, items)

\* a group, capturing or not
SUBPATTERN(p) == Node("group", {}, FALSE, 0, 0, << p >>)

\* MAX_REPEAT and MIN_REPEAT: the same strings match
REPEAT(min, max, item) == Node("repeat", {}, FALSE, min, max, << item >>)

\* Tokenizer: the token that starts at index i of the pattern (a character,
\* or a backslash and the character after it), << >> at the end
Token(pattern, i) ==
    IF i > Len(pattern) THEN << >>
    ELSE IF pattern[i] = "\\" /\ i < Len(pattern) THEN << "\\", pattern[i + 1] >>
    ELSE << pattern[i] >>

\* Tokenizer.__next meets a backslash that ends the pattern when it reads
\* the token at index i ahead
EndOfPattern(pattern, i) == i = Len(pattern) /\ pattern[i] = "\\"

\* re.error(msg, pattern, pos): the message with the position, and with
\* line and column when the pattern has a line end
error_msg(pattern, msg, pos) ==
    LET nls    == {k \in 1..pos : pattern[k] = "\n"}
        lineno == Cardinality(nls) + 1
        colno  == IF nls = {} THEN pos + 1
                  ELSE pos - (CHOOSE k \in nls : \A l \in nls : l <= k) + 1
        at     == msg \o " at position " \o ToString(pos)
    IN  IF \E k \in 1..Len(pattern) : pattern[k] = "\n"
        THEN "error: " \o at \o " (line " \o ToString(lineno) \o ", column "
                 \o ToString(colno) \o ")"
        ELSE "error: " \o at

\* Tokenizer.__next raises when it reads the backslash that ends the
\* pattern
bad_escape_end(pattern) ==
    [error |-> Some(error_msg(pattern, "bad escape (end of pattern)", Len(pattern) - 1)),
     node |-> SubPattern(<< >>), pos |-> Len(pattern)]

\* the parser raises `what` with the token at index i read ahead: the error
\* of the tokenizer came first if that token is the backslash that ends the
\* pattern
Raised(pattern, i, what) ==
    IF EndOfPattern(pattern, i) THEN bad_escape_end(pattern)
    ELSE [error |-> Some(what), node |-> SubPattern(<< >>), pos |-> i]

\* source.error(msg, offset) raised with the token at index i read ahead;
\* pos is the position the message names
Raise(pattern, i, msg, pos) == Raised(pattern, i, error_msg(pattern, msg, pos))

\* the parser has read a node, with the token at index i read ahead
Parsed(pattern, i, node) ==
    IF EndOfPattern(pattern, i) THEN bad_escape_end(pattern)
    ELSE [error |-> None, node |-> node, pos |-> i]

\* _escape(source, escape, state), the token after it at index i
escape_code(pattern, i, escape) ==
    LET c == escape[2]
        bad == Raise(pattern, i, "bad escape " \o str(escape), i - 3)
    IN  IF c = "A" THEN Parsed(pattern, i, AT("at_beginning_string"))
        ELSE IF c = "b" THEN Parsed(pattern, i, AT("at_boundary"))
        ELSE IF c = "B" THEN Parsed(pattern, i, AT("at_non_boundary"))
        ELSE IF c = "d" THEN Parsed(pattern, i, In(Digit, FALSE))
        ELSE IF c = "D" THEN Parsed(pattern, i, In(Digit, TRUE))
        ELSE IF c = "s" THEN Parsed(pattern, i, In(WhiteSpace, FALSE))
        ELSE IF c = "S" THEN Parsed(pattern, i, In(WhiteSpace, TRUE))
        ELSE IF c = "w" THEN Parsed(pattern, i, In(WordChar, FALSE))
        ELSE IF c = "W" THEN Parsed(pattern, i, In(WordChar, TRUE))
        ELSE IF c = "Z" THEN Parsed(pattern, i, AT("at_end_string"))
        ELSE IF c = "a" THEN Parsed(pattern, i, LITERAL(CodePoints[7]))
        ELSE IF c = "f" THEN Parsed(pattern, i, LITERAL("\f"))
        ELSE IF c = "n" THEN Parsed(pattern, i, LITERAL("\n"))
        ELSE IF c = "r" THEN Parsed(pattern, i, LITERAL("\r"))
        ELSE IF c = "t" THEN Parsed(pattern, i, LITERAL("\t"))
        ELSE IF c = "v" THEN Parsed(pattern, i, LITERAL(CodePoints[11]))
        ELSE IF c \in {"x", "u", "U", "N"} \cup Digit THEN Raised(pattern, i, NotModelled)
        ELSE IF c \in ASCIILETTERS THEN bad
        ELSE Parsed(pattern, i, LITERAL(c))

\* _class_escape(source, escape), the token after it at index i: the
\* characters of the code, and whether it is a LITERAL
class_escape(pattern, i, escape) ==
    LET c == escape[2]
        literal(ch) == [error |-> None, set |-> {ch}, literal |-> TRUE]
        category(set) == [error |-> None, set |-> set, literal |-> FALSE]
        raised(r) == [error |-> r.error, set |-> {}, literal |-> FALSE]
    IN  IF EndOfPattern(pattern, i) THEN raised(bad_escape_end(pattern))
        ELSE IF c = "a" THEN literal(CodePoints[7])
        ELSE IF c = "b" THEN literal(CodePoints[8])
        ELSE IF c = "f" THEN literal("\f")
        ELSE IF c = "n" THEN literal("\n")
        ELSE IF c = "r" THEN literal("\r")
        ELSE IF c = "t" THEN literal("\t")
        ELSE IF c = "v" THEN literal(CodePoints[11])
        ELSE IF c = "\\" THEN literal("\\")
        ELSE IF c = "d" THEN category(Digit)
        ELSE IF c = "D" THEN category(AllChars \ Digit)
        ELSE IF c = "s" THEN category(WhiteSpace)
        ELSE IF c = "S" THEN category(AllChars \ WhiteSpace)
        ELSE IF c = "w" THEN category(WordChar)
        ELSE IF c = "W" THEN category(AllChars \ WordChar)
        ELSE IF c \in {"x", "u", "U", "N"} \cup OCTDIGITS
        THEN raised(Raised(pattern, i, NotModelled))
        ELSE IF c \in ASCIILETTERS \cup Digit
        THEN raised(Raise(pattern, i, "bad escape " \o str(escape), i - 3))
        ELSE literal(c)

\* the code of a token of a character set, the token after it at index i
set_code(pattern, i, this) ==
    IF this[1] = "\\" THEN class_escape(pattern, i, this)
    ELSE [error |-> IF EndOfPattern(pattern, i)
                    THEN bad_escape_end(pattern).error ELSE None,
          set |-> {this[1]}, literal |-> TRUE]

\* a code of a character set that raised
set_raised(code, i) == [error |-> code.error, node |-> SubPattern(<< >>), pos |-> i]

RECURSIVE parse_set(_, _, _, _, _, _)
\* the range this-that of a character set: both codes are read, the token
\* after `that` at index i
parse_range(pattern, i, here, negate, set, this, code1, that, code2) ==
    LET msg == "bad character range " \o str(this) \o "-" \o str(that)
        pos == i - 2 - Len(this) - Len(that)
        lo  == ord(CHOOSE c \in code1.set : TRUE)
        hi  == ord(CHOOSE c \in code2.set : TRUE)
    IN  IF code2.error # None THEN set_raised(code2, i)
        ELSE IF ~code1.literal \/ ~code2.literal THEN Raise(pattern, i, msg, pos)
        ELSE IF hi < lo THEN Raise(pattern, i, msg, pos)
        ELSE parse_set(pattern, i, here, negate,
                       set \cup ({CodePoints[k] : k \in lo..hi} \ {""}), TRUE)

\* a token `this` of a character set and its code, the token after it at
\* index i: a range, or the code alone
parse_set_code(pattern, i, here, negate, set, this, code1) ==
    LET that == Token(pattern, i + 1)
        j    == i + 1 + Len(that)
    IN  IF code1.error # None THEN set_raised(code1, i)
        ELSE IF Token(pattern, i) # << "-" >>
        THEN parse_set(pattern, i, here, negate, set \cup code1.set, TRUE)
        ELSE IF EndOfPattern(pattern, i + 1) THEN bad_escape_end(pattern)
        ELSE IF that = << >>
        THEN Raise(pattern, i + 1, "unterminated character set", here)
        ELSE IF that = << "]" >>
        THEN Parsed(pattern, j, In(set \cup code1.set \cup {"-"}, negate))
        ELSE parse_range(pattern, j, here, negate, set, this, code1, that,
                         set_code(pattern, j, that))

\* the loop of _parse over a character set opened at position `here`: the
\* token at index i is the next, `set` holds the characters so far, `any`
\* tells that the list of codes is not empty. The characters from index i
\* on that are no escape, no "]" and neither side of a range are codes of
\* their own: the loop passes over all of them (`plain` of them) at once
parse_set(pattern, i, here, negate, set, any) ==
    LET this  == Token(pattern, i)
        n     == SpanNot(pattern, i, {"\\", "]", "-"})
        plain == IF CharIn(pattern, i + n, {"-"}) THEN n - 1 ELSE n
    IN  IF EndOfPattern(pattern, i) THEN bad_escape_end(pattern)
        ELSE IF this = << >>
        THEN Raise(pattern, i, "unterminated character set", here)
        ELSE IF this = << "]" >> /\ any
        THEN Parsed(pattern, i + 1, In(set, negate))
        ELSE IF plain > 0
        THEN parse_set(pattern, i + plain, here, negate,
                       set \cup {pattern[k] : k \in i..(i + plain - 1)}, TRUE)
        ELSE parse_set_code(pattern, i + Len(this), here, negate, set, this,
                            set_code(pattern, i + Len(this), this))

\* the numeral of a repeat, or the default
repeat_number(digits, default) == IF digits = << >> THEN default ELSE DigitsValue(digits)

\* the numeral without its leading zeros
significant(digits) == SubSeq(digits, Span(digits, 1, {"0"}) + 1, Len(digits))

\* int(digits) >= 4294967295
too_large(digits) ==
    LET d == significant(digits)
    IN  \/ Len(d) > 10
        \/ /\ Len(d) = 10
           /\ \/ DigitsValue(SubSeq(d, 1, 5)) > 42949
              \/ DigitsValue(SubSeq(d, 1, 5)) = 42949 /\ DigitsValue(SubSeq(d, 6, 10)) >= 67295

\* a count of ten digits below 4294967295: not modelled
large(digits) == Len(significant(digits)) = 10

\* {lo,hi} read after the brace at index i - 1: the index after the closing
\* brace and the two numerals, or index 0 when this is no repeat
repeat_braces(pattern, i) ==
    LET n1 == Span(pattern, i, Digit)
        lo == SubSeq(pattern, i, i + n1 - 1)
        c  == CharIn(pattern, i + n1, {","})
        k  == IF c THEN i + n1 + 1 ELSE i + n1
        n2 == IF c THEN Span(pattern, k, Digit) ELSE 0
        hi == IF c THEN SubSeq(pattern, k, k + n2 - 1) ELSE lo
    IN  IF CharIn(pattern, k + n2, {"}"})
        THEN [pos |-> k + n2 + 1, lo |-> lo, hi |-> hi]
        ELSE [pos |-> 0, lo |-> lo, hi |-> hi]

RECURSIVE parse_items(_, _, _)
RECURSIVE parse_sub(_, _, _)
\* _parse_sub after an alternative is parsed as r
parse_sub_next(pattern, items, r) ==
    IF r.error # None THEN r
    ELSE IF Token(pattern, r.pos) = << "|" >>
    THEN parse_sub(pattern, r.pos + 1, Append(items, r.node))
    ELSE IF items = << >> THEN r
    ELSE Parsed(pattern, r.pos, BRANCH(Append(items, r.node)))

\* _parse_sub: an alternation a|b|c from index i on, `items` the
\* alternatives read so far
parse_sub(pattern, i, items) ==
    parse_sub_next(pattern, items, parse_items(pattern, i, << >>))

\* _parse goes on after an item parsed as r
parse_item(pattern, subpattern, r) ==
    IF r.error # None THEN r
    ELSE parse_items(pattern, r.pos, Append(subpattern, r.node))

\* the repeat of the last item of `subpattern`: min and max are known, the
\* quantifier stands at index at, the token after it at index i
parse_repeat(pattern, i, subpattern, at, min, max) ==
    IF subpattern = << >> \/ IsAT(subpattern[Len(subpattern)])
    THEN Raise(pattern, i, "nothing to repeat", at - 1)
    ELSE IF subpattern[Len(subpattern)].op = "repeat"
    THEN Raise(pattern, i, "multiple repeat", at - 1)
    ELSE IF Token(pattern, i) = << "+" >> THEN Raised(pattern, i + 1, NotModelled)
    ELSE parse_items(pattern,
                     IF Token(pattern, i) = << "?" >> THEN i + 1 ELSE i,
                     [subpattern EXCEPT ![Len(subpattern)] = REPEAT(min, max, @)])

\* {lo,hi} after an item, the brace at index at and the braces read as b:
\* min = int(lo) is converted and tested before max = int(hi) is, and both
\* before the item to repeat is looked at
parse_braces(pattern, subpattern, at, b) ==
    IF Token(pattern, at + 1) = << "}" >> \/ b.pos = 0
    THEN parse_items(pattern, at + 1, Append(subpattern, LITERAL("{")))
    ELSE IF Len(b.lo) > int_max_str_digits THEN Raised(pattern, b.pos, ExceedsLimit)
    ELSE IF too_large(b.lo)
    THEN Raised(pattern, b.pos, "OverflowError: the repetition number is too large")
    ELSE IF Len(b.hi) > int_max_str_digits THEN Raised(pattern, b.pos, ExceedsLimit)
    ELSE IF too_large(b.hi)
    THEN Raised(pattern, b.pos, "OverflowError: the repetition number is too large")
    ELSE IF large(b.lo) \/ large(b.hi) THEN Raised(pattern, b.pos, NotModelled)
    ELSE IF b.hi # << >> /\ DigitsValue(b.hi) < repeat_number(b.lo, 0)
    THEN Raise(pattern, b.pos, "min repeat greater than max repeat", at)
    ELSE parse_repeat(pattern, b.pos, subpattern, at,
                      repeat_number(b.lo, 0), repeat_number(b.hi, MAXREPEAT))

\* a group opened at index at, its contents parsed as r
parse_group(pattern, subpattern, at, r) ==
    IF r.error # None THEN r
    ELSE IF Token(pattern, r.pos) = << ")" >>
    THEN parse_items(pattern, r.pos + 1, Append(subpattern, SUBPATTERN(r.node)))
    ELSE Raise(pattern, r.pos, "missing ), unterminated subpattern", at - 1)

\* _parse: the items from index i on, up to "|", ")" or the end; the
\* characters from index i on that are not special are literals, one item
\* each, and the loop passes over all of them at once
parse_items(pattern, i, subpattern) ==
    LET this == Token(pattern, i)
        j    == i + Len(this)
    IN  IF EndOfPattern(pattern, i) THEN bad_escape_end(pattern)
        ELSE IF this = << >> \/ this = << "|" >> \/ this = << ")" >>
        THEN Parsed(pattern, i, SubPattern(subpattern))
        ELSE IF this[1] = "\\"
        THEN parse_item(pattern, subpattern, escape_code(pattern, j, this))
        ELSE IF this[1] \notin SPECIAL_CHARS
        THEN parse_items(pattern, i + SpanNot(pattern, i, SPECIAL_CHARS),
                         subpattern \o [k \in 1..SpanNot(pattern, i, SPECIAL_CHARS) |->
                                           LITERAL(pattern[i + k - 1])])
        ELSE IF this = << "[" >>
        THEN IF Token(pattern, j) = << "^" >>
             THEN parse_item(pattern, subpattern,
                             parse_set(pattern, j + 1, i - 1, TRUE, {}, FALSE))
             ELSE parse_item(pattern, subpattern,
                             parse_set(pattern, j, i - 1, FALSE, {}, FALSE))
        ELSE IF this = << "?" >> THEN parse_repeat(pattern, j, subpattern, i, 0, 1)
        ELSE IF this = << "*" >> THEN parse_repeat(pattern, j, subpattern, i, 0, MAXREPEAT)
        ELSE IF this = << "+" >> THEN parse_repeat(pattern, j, subpattern, i, 1, MAXREPEAT)
        ELSE IF this = << "{" >>
        THEN parse_braces(pattern, subpattern, i, repeat_braces(pattern, j))
        ELSE IF this = << "." >>
        THEN parse_items(pattern, j, Append(subpattern, In({"\n"}, TRUE)))
        ELSE IF this = << "(" >>
        THEN IF Token(pattern, j) # << "?" >>
             THEN parse_group(pattern, subpattern, i, parse_sub(pattern, j, << >>))
             ELSE IF EndOfPattern(pattern, j + 1) THEN bad_escape_end(pattern)
             ELSE IF Token(pattern, j + 1) = << >>
             THEN Raise(pattern, j + 1, "unexpected end of pattern", j)
             ELSE IF Token(pattern, j + 1) = << ":" >>
             THEN parse_group(pattern, subpattern, i, parse_sub(pattern, j + 2, << >>))
             ELSE Raised(pattern, j + 1 + Len(Token(pattern, j + 1)), NotModelled)
        ELSE IF this = << "^" >>
        THEN parse_items(pattern, j, Append(subpattern, AT("at_beginning")))
        ELSE parse_items(pattern, j, Append(subpattern, AT("at_end")))

\* parse(str) after the alternation is parsed as r
parse_end(pattern, r) ==
    IF r.error # None THEN r
    ELSE IF Token(pattern, r.pos) # << >>
    THEN Raise(pattern, r.pos, "unbalanced parenthesis", r.pos - 1)
    ELSE r

\* re.compile(pattern): the parsed pattern, or the error raised
re_compile(pattern) == parse_end(pattern, parse_sub(pattern, 1, << >>))

\* the pattern is of the modelled syntax
re_modelled(pattern) == re_compile(pattern).error # Some(NotModelled)

RECURSIVE re_ends(_, _, _)
RECURSIVE re_ends_seq(_, _, _, _)
RECURSIVE re_ends_repeat(_, _, _, _)
RECURSIVE re_ends_again(_, _, _, _, _)
RECURSIVE re_ends_more(_, _, _, _, _)
\* the items from the k-th on of a sequence, one after the other
re_ends_seq(kids, k, s, from) ==
    IF k > Len(kids) \/ from = {} THEN from
    ELSE re_ends_seq(kids, k + 1, s, re_ends(kids[k], s, from))

\* min times the item, from the indices `from`
re_ends_repeat(item, s, from, min) ==
    IF min = 0 \/ from = {} THEN from
    ELSE re_ends_again(item, s, from, min, re_ends(item, s, from))

\* the item once more of min times, `next` the indices after it
re_ends_again(item, s, from, min, next) ==
    IF next = from THEN from ELSE re_ends_repeat(item, s, next, min - 1)

\* up to max times the item more: `reached` are the indices reached so far,
\* `new` those reached last
re_ends_more(item, s, reached, new, max) ==
    IF new = {} THEN reached
    ELSE IF max = 0 THEN reached \cup new
    ELSE re_ends_more(item, s, reached \cup new,
                      re_ends(item, s, new) \ (reached \cup new), max - 1)

\* the indices of s after a match of the node that begins at an index of
\* `from`
re_ends(node, s, from) ==
    IF node.op = "in"
    THEN {i + 1 : i \in {k \in from : k <= Len(s) /\ ((s[k] \in node.set) # node.neg)}}
    ELSE IF node.op \in {"at_beginning", "at_beginning_string"}
    THEN from \cap {1}
    ELSE IF node.op = "at_end"
    THEN {i \in from : i = Len(s) + 1 \/ (i = Len(s) /\ s[i] = "\n")}
    ELSE IF node.op = "at_end_string"
    THEN from \cap {Len(s) + 1}
    ELSE IF node.op \in {"at_boundary", "at_non_boundary"}
    THEN {i \in from : /\ Len(s) > 0
                       /\ (CharIn(s, i - 1, WordChar) # CharIn(s, i, WordChar))
                             = (node.op = "at_boundary")}
    ELSE IF node.op = "subpattern" THEN re_ends_seq(node.kids, 1, s, from)
    ELSE IF node.op = "branch"
    THEN UNION {re_ends(node.kids[k], s, from) : k \in 1..Len(node.kids)}
    ELSE IF node.op = "group" THEN re_ends(node.kids[1], s, from)
    ELSE re_ends_more(node.kids[1], s, {},
                      re_ends_repeat(node.kids[1], s, from, node.lo),
                      IF node.hi = MAXREPEAT THEN MAXREPEAT ELSE node.hi - node.lo)

\* re.match(compiled, s) is not None
re_match(compiled, s) == re_ends(compiled, s, {1}) # {}

\* ------------------------------------------------------------------------
\* Mangling
\* ------------------------------------------------------------------------
RECURSIVE setupManglingLoop(_, _, _)
\* the loop of Mangling._setupMangling over the lines from line i on: the
\* lines come in pairs, mangled then demangled; a later pair overwrites
setupManglingLoop(lines, i, mangling) ==
    IF i + 1 > Len(lines) THEN mangling
    ELSE setupManglingLoop(lines, i + 2,
            [k \in DOMAIN mangling \cup {lines[i]} |->
                IF k = lines[i] THEN lines[i + 1] ELSE mangling[k]])

\* Mangling(mangling_file): mangling_file is None, or Some of a file that
\* may not exist: [isfile |-> BOOLEAN, content |-> text]
Mangling(mangling_file) ==
    IF mangling_file = None THEN [mangling |-> None]
    ELSE IF ~mangling_file[1].isfile THEN [mangling |-> None]
    ELSE [mangling |->
            Some(setupManglingLoop(splitlines(mangling_file[1].content), 1, << >>))]

\* Mangling.demangle
Mangling_demangle(self, symbol_name) ==
    IF self.mangling = None THEN << symbol_name, FALSE >>
    ELSE IF symbol_name \in DOMAIN self.mangling[1]
         THEN << self.mangling[1][symbol_name], TRUE >>
         ELSE << symbol_name, FALSE >>

\* ------------------------------------------------------------------------
\* Symbol (elf_diff.symbol): the capability set Binary uses
\* ------------------------------------------------------------------------
\* symbol_type(name_mangled, name, is_demangled)
Symbol(name_mangled, name, is_demangled) ==
    [name_mangled |-> name_mangled,
     name |-> name,
     is_demangled |-> is_demangled,
     size |-> None,
     type_ |-> None,
     instruction_lines |-> << >>,
     source_id |-> None,
     source_line |-> None,
     source_column |-> None,
     init_calls |-> 0]

\* Symbol.init()
Symbol_init(symbol) == [symbol EXCEPT !.init_calls = @ + 1]

\* Symbol.addInstructions(instruction_line)
addInstructions(symbol, instruction_line) ==
    [symbol EXCEPT !.instruction_lines = Append(@, instruction_line)]

\* ------------------------------------------------------------------------
\* State
\* ------------------------------------------------------------------------
VARIABLES
    env,                    \* the arguments of Binary(...) and what each tool prints
    pc,                     \* the position of the construction
    line_no,                \* the line the loop of the current phase reads next
    error,                  \* the exception that ended the construction, or None
    warnings,               \* the warnings given to error_handling.warning
    tool_runs,              \* the tools run so far, in order
    phases,                 \* the phases started so far, in order
    binutils_work,
    text_size, data_size, bss_size, overall_size, progmem_size, static_ram_size,
    file_format,
    symbol_selection_regex_compiled,    \* None, or the compiled pattern
    symbol_exclusion_regex_compiled,
    source_files,
    symbols,
    num_symbols_dropped,
    instructions_available,
    symbol_collector,       \* the SymbolCollector of _gatherSymbolInstructions
    info_collector,         \* the _DebugInformationCollector of _gatherDebugInformation
    main_pc,                \* the position of main()
    main_error,             \* the exception main() caught or is about to catch, or None
    errors_occurred,
    report_generated,
    exit_status,            \* the argument of sys.exit, or None
    main_steps              \* the steps of the run main() started so far, in order

sizeVars == << text_size, data_size, bss_size, overall_size, progmem_size, static_ram_size >>

logVars == << error, warnings, tool_runs, phases >>

regexVars == << symbol_selection_regex_compiled, symbol_exclusion_regex_compiled >>

vars == << env, pc, line_no, error, warnings, tool_runs, phases, binutils_work,
           text_size, data_size, bss_size, overall_size, progmem_size,
           static_ram_size, file_format, regexVars, source_files, symbols,
           num_symbols_dropped, instructions_available, symbol_collector,
           info_collector >>

mainVars == << main_pc, main_error, errors_occurred, report_generated, exit_status,
               main_steps >>

\* the construction of a Binary runs inside generateDocument(settings), the
\* call of exportDocument (__main__.py, line 45); it changes nothing of main()
InConstruction ==
    /\ main_pc = "generateDocument"
    /\ UNCHANGED mainVars

\* os.path.isfile(filename)
isfile(filename) == filename \in env.files

\* a filter that asks the selection pattern before the exclusion pattern
isSymbolSelected_selection_first(symbol_name) ==
    IF /\ symbol_selection_regex_compiled # None
       /\ re_match(symbol_selection_regex_compiled[1], symbol_name)
    THEN TRUE
    ELSE IF /\ symbol_exclusion_regex_compiled # None
            /\ re_match(symbol_exclusion_regex_compiled[1], symbol_name)
    THEN FALSE
    ELSE symbol_selection_regex_compiled = None

\* Binary._isSymbolSelected
isSymbolSelected(symbol_name) ==
    IF /\ symbol_exclusion_regex_compiled # None
       /\ re_match(symbol_exclusion_regex_compiled[1], symbol_name)
    THEN FALSE
    ELSE IF symbol_selection_regex_compiled = None THEN TRUE
    ELSE IF re_match(symbol_selection_regex_compiled[1], symbol_name) THEN TRUE
    ELSE FALSE

\* a chain that never trusts the tools
demangle_tools_never_trusted(symbol_name_with_mangling_state_unknown) ==
    IF /\ env.mangling # None
       /\ Mangling_demangle(env.mangling[1], symbol_name_with_mangling_state_unknown)[2]
    THEN << Mangling_demangle(env.mangling[1], symbol_name_with_mangling_state_unknown)[1],
            TRUE >>
    ELSE << symbol_name_with_mangling_state_unknown, FALSE >>

\* Binary.demangle
demangle(symbol_name_with_mangling_state_unknown) ==
    LET m == IF env.mangling # None
             THEN Mangling_demangle(env.mangling[1], symbol_name_with_mangling_state_unknown)
             ELSE << symbol_name_with_mangling_state_unknown, FALSE >>
    IN  IF env.mangling # None /\ m[2] THEN << m[1], TRUE >>
        ELSE IF binutils_work THEN << symbol_name_with_mangling_state_unknown, TRUE >>
        ELSE << symbol_name_with_mangling_state_unknown, FALSE >>

\* a rejection that is not counted
generateSymbol_uncounted(symbol_name_mangled, symbol_name_possibly_demangled, symbol_name_is_demangled) ==
    IF isSymbolSelected(symbol_name_possibly_demangled)
    THEN [symbol |-> Some(Symbol(symbol_name_mangled, symbol_name_possibly_demangled,
                                 symbol_name_is_demangled)),
          num_symbols_dropped |-> num_symbols_dropped]
    ELSE [symbol |-> None, num_symbols_dropped |-> num_symbols_dropped]

\* a symbol for every candidate, whatever the filter says
generateSymbol_unfiltered(symbol_name_mangled, symbol_name_possibly_demangled, symbol_name_is_demangled) ==
    [symbol |-> Some(Symbol(symbol_name_mangled, symbol_name_possibly_demangled,
                            symbol_name_is_demangled)),
     num_symbols_dropped |-> num_symbols_dropped]

\* Binary._generateSymbol: the symbol or None, and num_symbols_dropped after it
generateSymbol(symbol_name_mangled, symbol_name_possibly_demangled, symbol_name_is_demangled) ==
    IF isSymbolSelected(symbol_name_possibly_demangled)
    THEN [symbol |-> Some(Symbol(symbol_name_mangled, symbol_name_possibly_demangled,
                                 symbol_name_is_demangled)),
          num_symbols_dropped |-> num_symbols_dropped]
    ELSE [symbol |-> None, num_symbols_dropped |-> num_symbols_dropped + 1]

\* a table keyed by the display name
addSymbol_by_display_name(table, symbol) ==
    [k \in DOMAIN table \cup {symbol.name} |->
        IF k = symbol.name THEN Symbol_init(symbol) ELSE table[k]]

\* Binary._addSymbol on a symbol table
addSymbol(table, symbol) ==
    [k \in DOMAIN table \cup {symbol.name_mangled} |->
        IF k = symbol.name_mangled THEN Symbol_init(symbol) ELSE table[k]]

\* ------------------------------------------------------------------------
\* Binary.__init__ and the order of the phases
\* ------------------------------------------------------------------------
\* an order in which the sizes are extracted after the symbol properties
parseSymbols_sizes_after_properties ==
    << "determineBinaryFileFormat", "gatherSymbolProperties", "determineSymbolSizes",
       "gatherSymbolInstructions", "gatherDebugInformation", "initSymbols" >>

\* the calls of Binary.__init__ (line 215, then _parseSymbols) and of
\* Binary._parseSymbols, in the order of the code
parseSymbols ==
    << "determineBinaryFileFormat", "determineSymbolSizes", "gatherSymbolProperties",
       "gatherSymbolInstructions", "gatherDebugInformation", "initSymbols" >>

\* where the construction goes on when the call `phase` returns
Return(phase) ==
    LET i == CHOOSE k \in DOMAIN parseSymbols : parseSymbols[k] = phase
    IN  IF i = Len(parseSymbols) THEN "done" ELSE parseSymbols[i + 1]

EmptyCollector == [cur_symbol |-> None, symbols |-> << >>, n_instruction_lines |-> 0]

EmptyInfoCollector ==
    [header_id |-> None, header_tag |-> None, name_mangled |-> None,
     source_id |-> None, source_line |-> None, source_column |-> None]

\* re.compile of an optional pattern called with r, its parsed pattern:
\* the attribute, or the error raised
compile_optional(regex, r) ==
    IF regex = None THEN [error |-> None, compiled |-> None]
    ELSE IF r.error # None THEN [error |-> r.error, compiled |-> None]
    ELSE [error |-> None, compiled |-> Some(r.node)]

compiled_optional(regex) ==
    compile_optional(regex, IF regex = None THEN None ELSE re_compile(regex[1]))

\* the patterns Binary.__init__ compiles are of the modelled syntax
regex_modelled(selection, exclusion) ==
    /\ selection.error # Some(NotModelled)
    /\ selection.error = None => exclusion.error # Some(NotModelled)

\* the attributes Binary.__init__ sets before it compiles the patterns
Binary_init_attributes ==
    /\ binutils_work' = TRUE
    /\ text_size' = 0 /\ data_size' = 0 /\ bss_size' = 0
    /\ overall_size' = 0 /\ progmem_size' = 0 /\ static_ram_size' = 0
    /\ file_format' = None

\* a constructor that does not check the filename
Binary_init_filename_unchecked ==
    /\ pc = "Binary"
    /\ InConstruction
    /\ Binary_init_attributes
    /\ \E selection \in {compiled_optional(env.symbol_selection_regex)},
          exclusion \in {compiled_optional(env.symbol_exclusion_regex)} :
          /\ regex_modelled(selection, exclusion)
          /\ symbol_selection_regex_compiled' = selection.compiled
          /\ symbol_exclusion_regex_compiled' =
                IF selection.error # None THEN None ELSE exclusion.compiled
          /\ IF selection.error # None
             THEN /\ error' = selection.error
                  /\ pc' = "raised"
             ELSE IF exclusion.error # None
             THEN /\ error' = exclusion.error
                  /\ pc' = "raised"
             ELSE /\ error' = error
                  /\ pc' = parseSymbols[1]
    /\ source_files' = << >>
    /\ symbols' = << >>
    /\ num_symbols_dropped' = 0
    /\ UNCHANGED << env, line_no, warnings, tool_runs, phases, instructions_available,
                    symbol_collector, info_collector >>

\* Binary.__init__ up to the first phase: the attributes, the two patterns
\* compiled, the two checks of the filename, the empty tables
Binary_init ==
    /\ pc = "Binary"
    /\ InConstruction
    /\ Binary_init_attributes
    /\ \E selection \in {compiled_optional(env.symbol_selection_regex)},
          exclusion \in {compiled_optional(env.symbol_exclusion_regex)} :
          /\ regex_modelled(selection, exclusion)
          /\ symbol_selection_regex_compiled' = selection.compiled
          /\ symbol_exclusion_regex_compiled' =
                IF selection.error # None THEN None ELSE exclusion.compiled
          /\ IF selection.error # None
             THEN /\ error' = selection.error
                  /\ pc' = "raised"
             ELSE IF exclusion.error # None
             THEN /\ error' = exclusion.error
                  /\ pc' = "raised"
             ELSE IF env.filename = ""
             THEN /\ error' = Some("No binary filename defined")
                  /\ pc' = "raised"
             ELSE IF ~isfile(env.filename)
             THEN /\ error' = Some("Unable to find filename")
                  /\ pc' = "raised"
             ELSE /\ error' = error
                  /\ pc' = parseSymbols[1]
    /\ source_files' = << >>
    /\ symbols' = << >>
    /\ num_symbols_dropped' = 0
    /\ UNCHANGED << env, line_no, warnings, tool_runs, phases, instructions_available,
                    symbol_collector, info_collector >>

\* Binary._determineBinaryFileFormat
determineBinaryFileFormat ==
    /\ pc = "determineBinaryFileFormat"
    /\ InConstruction
    /\ phases' = Append(phases, "determineBinaryFileFormat")
    /\ tool_runs' = Append(tool_runs, "objdump -a")
    /\ LET file_format_match == file_format_re_search(env.objdump_a)
       IN  file_format' = IF file_format_match # None THEN file_format_match ELSE file_format
    /\ pc' = Return("determineBinaryFileFormat")
    /\ UNCHANGED << env, regexVars, line_no, error, warnings, binutils_work, sizeVars, source_files,
                    symbols, num_symbols_dropped, instructions_available,
                    symbol_collector, info_collector >>

\* the first line of the size output that size_re matches, or 0
FirstSizeLine(lines) ==
    LET hits == {i \in 1..Len(lines) : size_re_match(lines[i]) # None}
    IN  IF hits = {} THEN 0 ELSE CHOOSE i \in hits : \A j \in hits : i <= j

\* the first of the four groups that int() raises on, or 0
FirstBadSize(size_match) ==
    LET bad == {k \in 1..4 : int_error(size_match[k]) # None}
    IN  IF bad = {} THEN 0 ELSE CHOOSE k \in bad : \A j \in bad : k <= j

\* the assignments of the loop body on the groups of the matching line; the
\* four sizes are assigned one after the other, so that an int() that raises
\* leaves the sizes before it assigned
SizesAssigned(size_match, bad) ==
    /\ text_size' = IF bad = 1 THEN text_size ELSE int(size_match[1])
    /\ data_size' = IF bad \in {1, 2} THEN data_size ELSE int(size_match[2])
    /\ bss_size' = IF bad \in {1, 2, 3} THEN bss_size ELSE int(size_match[3])
    /\ overall_size' = IF bad # 0 THEN overall_size ELSE int(size_match[4])
    /\ progmem_size' = IF bad # 0 THEN progmem_size
                       ELSE int(size_match[1]) + int(size_match[2])
    /\ static_ram_size' = IF bad # 0 THEN static_ram_size
                          ELSE int(size_match[2]) + int(size_match[3])
    /\ error' = IF bad # 0 THEN int_error(size_match[bad]) ELSE error
    /\ pc' = IF bad # 0 THEN "raised" ELSE Return("determineSymbolSizes")
    /\ UNCHANGED << warnings, binutils_work >>

\* a size extraction that gives up when no line matches
determineSymbolSizes_raises ==
    /\ pc = "determineSymbolSizes"
    /\ InConstruction
    /\ phases' = Append(phases, "determineSymbolSizes")
    /\ tool_runs' = Append(tool_runs, "size")
    /\ \E lines \in {splitlines(env.size)} :
       \E first \in {FirstSizeLine(lines)} :
           IF first # 0
           THEN \E size_match \in {size_re_match(lines[first])[1]} :
                    SizesAssigned(size_match, FirstBadSize(size_match))
           ELSE /\ warnings' = Append(warnings, "Unable to determine resource consumptions")
                /\ binutils_work' = FALSE
                /\ error' = Some("Unable to determine resource consumptions")
                /\ pc' = "raised"
                /\ UNCHANGED sizeVars
    /\ UNCHANGED << env, regexVars, line_no, file_format, source_files, symbols,
                    num_symbols_dropped, instructions_available, symbol_collector,
                    info_collector >>

\* Binary._determineSymbolSizes
determineSymbolSizes ==
    /\ pc = "determineSymbolSizes"
    /\ InConstruction
    /\ phases' = Append(phases, "determineSymbolSizes")
    /\ tool_runs' = Append(tool_runs, "size")
    /\ \E lines \in {splitlines(env.size)} :
       \E first \in {FirstSizeLine(lines)} :
           IF first # 0
           THEN \E size_match \in {size_re_match(lines[first])[1]} :
                    SizesAssigned(size_match, FirstBadSize(size_match))
           ELSE /\ warnings' = Append(warnings, "Unable to determine resource consumptions")
                /\ binutils_work' = FALSE
                /\ pc' = Return("determineSymbolSizes")
                /\ UNCHANGED << sizeVars, error >>
    /\ UNCHANGED << env, regexVars, line_no, file_format, source_files, symbols,
                    num_symbols_dropped, instructions_available, symbol_collector,
                    info_collector >>

\* ------------------------------------------------------------------------
\* Binary._gatherSymbolProperties
\* ------------------------------------------------------------------------
\* the number of line pairs zip() yields
nm_pairs == Min(Len(splitlines(env.nm)), Len(splitlines(env.nm_C)))

\* the two runs of nm and the reset of the counter, before the loop
gatherSymbolProperties_begin ==
    /\ pc = "gatherSymbolProperties"
    /\ InConstruction
    /\ phases' = Append(phases, "gatherSymbolProperties")
    /\ tool_runs' = tool_runs \o << "nm", "nm -C" >>
    /\ num_symbols_dropped' = 0
    /\ line_no' = 1
    /\ pc' = "nm_loop"
    /\ UNCHANGED << env, regexVars, error, warnings, binutils_work, sizeVars, file_format,
                    source_files, symbols, instructions_available, symbol_collector,
                    info_collector >>

\* a loop body that makes the symbol anew on every line, known name or not
gatherSymbolProperties_body_regenerates(line_mangled, line_demangled) ==
    LET nm_match_mangled   == nm_regex_match(line_mangled)
        nm_match_demangled == nm_regex_match(line_demangled)
        same == [symbols |-> symbols, num_symbols_dropped |-> num_symbols_dropped,
                 error |-> None]
    IN  IF nm_match_mangled = None THEN same
        ELSE IF nm_match_demangled = None
        THEN [same EXCEPT !.error = Some("AttributeError: NoneType has no attribute group")]
        ELSE
          LET d == demangle(nm_match_demangled[1][3])
              g == generateSymbol(nm_match_mangled[1][3], d[1], d[2])
          IN  IF g.symbol # None
              THEN IF ~IsDecimal(nm_match_mangled[1][1])
                   THEN [same EXCEPT !.error = int_error(nm_match_mangled[1][1])]
                   ELSE [same EXCEPT !.symbols =
                           addSymbol(symbols,
                               [g.symbol[1] EXCEPT !.size = Some(int(nm_match_mangled[1][1])),
                                                   !.type_ = Some(nm_match_mangled[1][2])])]
              ELSE [same EXCEPT !.num_symbols_dropped = g.num_symbols_dropped]

\* one pass of the loop body on the pair (line_mangled, line_demangled):
\* the symbol table, the counter and the exception raised (or None) after it
gatherSymbolProperties_body(line_mangled, line_demangled) ==
    LET nm_match_mangled   == nm_regex_match(line_mangled)
        nm_match_demangled == nm_regex_match(line_demangled)
        same == [symbols |-> symbols, num_symbols_dropped |-> num_symbols_dropped,
                 error |-> None]
    IN  IF nm_match_mangled = None THEN same
        ELSE IF nm_match_demangled = None
        THEN [same EXCEPT !.error = Some("AttributeError: NoneType has no attribute group")]
        ELSE
          LET symbol_size_str     == nm_match_mangled[1][1]
              symbol_type         == nm_match_mangled[1][2]
              symbol_name_mangled == nm_match_mangled[1][3]
              symbol_name_with_mangling_state_unknown == nm_match_demangled[1][3]
              d == demangle(symbol_name_with_mangling_state_unknown)
              g == generateSymbol(symbol_name_mangled, d[1], d[2])
              bad_int == [same EXCEPT !.error = int_error(symbol_size_str)]
          IN  IF symbol_name_mangled \notin DOMAIN symbols
              THEN IF g.symbol # None
                   THEN IF ~IsDecimal(symbol_size_str) THEN bad_int
                        ELSE [same EXCEPT !.symbols =
                                addSymbol(symbols,
                                    [g.symbol[1] EXCEPT !.size = Some(int(symbol_size_str)),
                                                        !.type_ = Some(symbol_type)])]
                   ELSE [same EXCEPT !.num_symbols_dropped = g.num_symbols_dropped]
              ELSE IF ~IsDecimal(symbol_size_str) THEN bad_int
                   ELSE [same EXCEPT !.symbols =
                            [symbols EXCEPT ![symbol_name_mangled].size = Some(int(symbol_size_str)),
                                            ![symbol_name_mangled].type_ = Some(symbol_type)]]

\* the loop of _gatherSymbolProperties on the next pair of lines
gatherSymbolProperties_line ==
    /\ pc = "nm_loop"
    /\ InConstruction
    /\ line_no <= nm_pairs
    /\ \E r \in {gatherSymbolProperties_body(splitlines(env.nm)[line_no],
                                              splitlines(env.nm_C)[line_no])} :
           /\ symbols' = r.symbols
           /\ num_symbols_dropped' = r.num_symbols_dropped
           /\ error' = r.error
           /\ pc' = IF r.error # None THEN "raised" ELSE pc
           /\ line_no' = IF r.error # None THEN line_no ELSE line_no + 1
    /\ UNCHANGED << env, regexVars, warnings, tool_runs, phases, binutils_work, sizeVars,
                    file_format, source_files, instructions_available,
                    symbol_collector, info_collector >>

\* the loop is through: _gatherSymbolProperties returns
gatherSymbolProperties_return ==
    /\ pc = "nm_loop"
    /\ InConstruction
    /\ line_no > nm_pairs
    /\ pc' = Return("gatherSymbolProperties")
    /\ UNCHANGED << env, regexVars, line_no, logVars, binutils_work, sizeVars, file_format,
                    source_files, symbols, num_symbols_dropped, instructions_available,
                    symbol_collector, info_collector >>

\* ------------------------------------------------------------------------
\* SymbolCollector and Binary._gatherSymbolInstructions
\* ------------------------------------------------------------------------
\* SymbolCollector._submitSymbol
submitSymbol(self) ==
    IF self.cur_symbol # None
    THEN [self EXCEPT !.symbols = Append(@, self.cur_symbol[1]), !.cur_symbol = None]
    ELSE self

\* SymbolCollector._unifyInstructionLine
unifyInstructionLine(line) ==
    IF file_format = Some(S_elf64_x86_64) THEN unifyX86InstructionLine(line) ELSE line

\* a collector that passes over the header of an unknown symbol
checkSymbolHeaderLine_unknown_skipped(self, line) ==
    IF header_line_re_match(line) # None
    THEN [self |-> IF header_line_re_match(line)[1] \in DOMAIN symbols
                   THEN [submitSymbol(self) EXCEPT
                            !.cur_symbol = Some(header_line_re_match(line)[1])]
                   ELSE self,
          is_header_line |-> TRUE]
    ELSE [self |-> self, is_header_line |-> FALSE]

\* SymbolCollector._checkSymbolHeaderLine: the collector after it and whether
\* the line is a header line. cur_symbol refers to a symbol of the table by
\* its key.
checkSymbolHeaderLine(self, line) ==
    LET header_match == header_line_re_match(line)
        submitted == IF self.cur_symbol # None THEN submitSymbol(self) ELSE self
    IN  IF header_match # None
        THEN [self |-> IF header_match[1] \in DOMAIN symbols
                       THEN [submitted EXCEPT !.cur_symbol = Some(header_match[1])]
                       ELSE submitted,
              is_header_line |-> TRUE]
        ELSE [self |-> self, is_header_line |-> FALSE]

\* one pass of the loop body of SymbolCollector._gatherSymbolInstructions:
\* the collector and the symbol table after it
gatherSymbolInstructions_body(self, line) ==
    LET unified_line == unifyInstructionLine(line)
        h == checkSymbolHeaderLine(self, unified_line)
        instruction_line_match == instruction_line_re_match(unified_line)
        counted == IF instruction_line_match # None
                   THEN [self EXCEPT !.n_instruction_lines = @ + 1]
                   ELSE self
    IN  IF h.is_header_line THEN [self |-> h.self, symbols |-> symbols]
        ELSE IF self.cur_symbol = None THEN [self |-> counted, symbols |-> symbols]
        ELSE IF instruction_line_match # None
        THEN [self |-> counted,
              symbols |-> [symbols EXCEPT ![self.cur_symbol[1]] =
                              addInstructions(@, instruction_line_match[1])]]
        ELSE IF Len(unified_line) > 0 /\ ~isspace(unified_line)
        THEN [self |-> counted,
              symbols |-> [symbols EXCEPT ![self.cur_symbol[1]] =
                              addInstructions(@, preHighlightSourceCode(unified_line))]]
        ELSE [self |-> counted, symbols |-> symbols]

\* the run of objdump and the new collector, before the loop
gatherSymbolInstructions_begin ==
    /\ pc = "gatherSymbolInstructions"
    /\ InConstruction
    /\ phases' = Append(phases, "gatherSymbolInstructions")
    /\ tool_runs' = Append(tool_runs, "objdump -drwS")
    /\ symbol_collector' = EmptyCollector
    /\ line_no' = 1
    /\ pc' = "objdump_loop"
    /\ UNCHANGED << env, regexVars, error, warnings, binutils_work, sizeVars, file_format,
                    source_files, symbols, num_symbols_dropped, instructions_available,
                    info_collector >>

\* the loop of SymbolCollector._gatherSymbolInstructions on the next line
gatherSymbolInstructions_line ==
    /\ pc = "objdump_loop"
    /\ InConstruction
    /\ line_no <= Len(splitlines(env.objdump_d))
    /\ \E r \in {gatherSymbolInstructions_body(symbol_collector,
                                                splitlines(env.objdump_d)[line_no])} :
           /\ symbol_collector' = r.self
           /\ symbols' = r.symbols
    /\ line_no' = line_no + 1
    /\ UNCHANGED << env, regexVars, pc, logVars, binutils_work, sizeVars, file_format, source_files,
                    num_symbols_dropped, instructions_available, info_collector >>

RECURSIVE addSymbols(_, _)
\* the loop over symbol_collector.symbols of Binary._gatherSymbolInstructions:
\* each entry is a symbol of the table, added to it again
addSymbols(table, keys) ==
    IF keys = << >> THEN table
    ELSE addSymbols(addSymbol(table, table[Head(keys)]), Tail(keys))

\* an end of the collection that takes the flag from the count of the
\* instruction lines
gatherSymbolInstructions_end_by_lines ==
    /\ pc = "objdump_loop"
    /\ InConstruction
    /\ line_no > Len(splitlines(env.objdump_d))
    /\ \E self \in {IF symbol_collector.cur_symbol # None
                     THEN submitSymbol(symbol_collector) ELSE symbol_collector} :
           /\ symbol_collector' = self
           /\ symbols' = addSymbols(symbols, self.symbols)
           /\ instructions_available' = Some(self.n_instruction_lines > 0)
           /\ warnings' = IF self.n_instruction_lines = 0
                          THEN Append(warnings, "Unable to read assembly from binary")
                          ELSE warnings
    /\ pc' = Return("gatherSymbolInstructions")
    /\ UNCHANGED << env, regexVars, line_no, error, tool_runs, phases, binutils_work, sizeVars,
                    file_format, source_files, num_symbols_dropped, info_collector >>

\* after the loop: the last symbol is submitted, and the rest of
\* Binary._gatherSymbolInstructions
gatherSymbolInstructions_end ==
    /\ pc = "objdump_loop"
    /\ InConstruction
    /\ line_no > Len(splitlines(env.objdump_d))
    /\ \E self \in {IF symbol_collector.cur_symbol # None
                     THEN submitSymbol(symbol_collector) ELSE symbol_collector} :
           /\ symbol_collector' = self
           /\ symbols' = addSymbols(symbols, self.symbols)
           /\ instructions_available' = Some(Len(self.symbols) > 0)
           /\ warnings' = IF self.n_instruction_lines = 0
                          THEN Append(warnings, "Unable to read assembly from binary")
                          ELSE warnings
    /\ pc' = Return("gatherSymbolInstructions")
    /\ UNCHANGED << env, regexVars, line_no, error, tool_runs, phases, binutils_work, sizeVars,
                    file_format, source_files, num_symbols_dropped, info_collector >>

\* ------------------------------------------------------------------------
\* Binary._DebugInformationCollector and Binary._gatherDebugInformation
\* ------------------------------------------------------------------------
S_DW_AT_linkage_name ==
    <<"D", "W", "_", "A", "T", "_", "l", "i", "n", "k", "a", "g", "e", "_", "n", "a", "m", "e">>

S_DW_AT_decl_file == <<"D", "W", "_", "A", "T", "_", "d", "e", "c", "l", "_", "f", "i", "l", "e">>

S_DW_AT_decl_line == <<"D", "W", "_", "A", "T", "_", "d", "e", "c", "l", "_", "l", "i", "n", "e">>

S_DW_AT_decl_column ==
    <<"D", "W", "_", "A", "T", "_", "d", "e", "c", "l", "_", "c", "o", "l", "u", "m", "n">>

S_DW_AT_name == <<"D", "W", "_", "A", "T", "_", "n", "a", "m", "e">>

S_DW_TAG_compile_unit ==
    <<"D", "W", "_", "T", "A", "G", "_", "c", "o", "m", "p", "i", "l", "e", "_", "u", "n", "i", "t">>

\* SourceFile(filename, id_)
SourceFile(filename, id_) == [filename |-> filename, id_ |-> id_]

\* Binary._registerSourceFile on the table of source files
registerSourceFile(table, filename, id_) ==
    [k \in DOMAIN table \cup {id_} |-> IF k = id_ THEN SourceFile(filename, id_) ELSE table[k]]

\* a flush that copies only the pending fields that are set
flushSymbolInfo_set_fields_only(self, table) ==
    [self |-> [self EXCEPT !.name_mangled = None, !.source_id = None,
                           !.source_line = None, !.source_column = None],
     symbols |->
        IF self.name_mangled # None /\ self.name_mangled[1] \in DOMAIN table
        THEN [table EXCEPT
                 ![self.name_mangled[1]].source_id =
                     IF self.source_id # None THEN self.source_id ELSE @,
                 ![self.name_mangled[1]].source_line =
                     IF self.source_line # None THEN self.source_line ELSE @,
                 ![self.name_mangled[1]].source_column =
                     IF self.source_column # None THEN self.source_column ELSE @]
        ELSE table]

\* a flush that keeps the pending record
flushSymbolInfo_pending_kept(self, table) ==
    [self |-> self,
     symbols |->
        IF self.name_mangled # None /\ self.name_mangled[1] \in DOMAIN table
        THEN [table EXCEPT ![self.name_mangled[1]].source_id = self.source_id,
                           ![self.name_mangled[1]].source_line = self.source_line,
                           ![self.name_mangled[1]].source_column = self.source_column]
        ELSE table]

\* a flush that makes a symbol for a pending name the table does not hold
flushSymbolInfo_unknown_created(self, table) ==
    [self |-> [self EXCEPT !.name_mangled = None, !.source_id = None,
                           !.source_line = None, !.source_column = None],
     symbols |->
        IF self.name_mangled # None
        THEN [k \in DOMAIN table \cup {self.name_mangled[1]} |->
                 IF k = self.name_mangled[1]
                 THEN [(IF k \in DOMAIN table THEN table[k] ELSE Symbol(k, k, FALSE))
                          EXCEPT !.source_id = self.source_id,
                                 !.source_line = self.source_line,
                                 !.source_column = self.source_column]
                 ELSE table[k]]
        ELSE table]

\* _DebugInformationCollector._flushSymbolInfo: the collector and the symbol
\* table after it
flushSymbolInfo(self, table) ==
    [self |-> [self EXCEPT !.name_mangled = None, !.source_id = None,
                           !.source_line = None, !.source_column = None],
     symbols |->
        IF self.name_mangled # None /\ self.name_mangled[1] \in DOMAIN table
        THEN [table EXCEPT ![self.name_mangled[1]].source_id = self.source_id,
                           ![self.name_mangled[1]].source_line = self.source_line,
                           ![self.name_mangled[1]].source_column = self.source_column]
        ELSE table]

\* an attribute line whose malformed value is passed over
parseReadelfOutput_info_malformed_skipped(self, tag, add_info) ==
    LET same == [self |-> self, symbols |-> symbols, source_files |-> source_files,
                 error |-> None]
        bad_int == [same EXCEPT !.error = int_error(add_info)]
    IN  IF tag = S_DW_AT_linkage_name
        THEN IF last_token_regex_match(add_info) = None THEN same
             ELSE [same EXCEPT !.self.name_mangled = last_token_regex_match(add_info)]
        ELSE IF tag = S_DW_AT_decl_file
        THEN IF ~IsDecimal(add_info) THEN bad_int
             ELSE [same EXCEPT !.self.source_id = Some(int(add_info))]
        ELSE IF tag = S_DW_AT_decl_line
        THEN IF ~IsDecimal(add_info) THEN bad_int
             ELSE [same EXCEPT !.self.source_line = Some(int(add_info))]
        ELSE IF tag = S_DW_AT_decl_column
        THEN IF ~IsDecimal(add_info) THEN bad_int
             ELSE [same EXCEPT !.self.source_column = Some(int(add_info))]
        ELSE IF tag = S_DW_AT_name /\ self.header_tag = Some(S_DW_TAG_compile_unit)
        THEN IF last_token_regex_match(add_info) = None THEN same
             ELSE [same EXCEPT !.source_files =
                     registerSourceFile(source_files, last_token_regex_match(add_info)[1],
                                        self.header_id[1])]
        ELSE same

\* the part of the loop body of parseReadelfOutput on an attribute line with
\* the groups tag and add_info
parseReadelfOutput_info(self, tag, add_info) ==
    LET same == [self |-> self, symbols |-> symbols, source_files |-> source_files,
                 error |-> None]
        bad_int == [same EXCEPT !.error = int_error(add_info)]
    IN  IF tag = S_DW_AT_linkage_name
        THEN LET name_match == last_token_regex_match(add_info)
             IN  IF name_match = None
                 THEN [same EXCEPT !.error = Some("Undeciferable info line")]
                 ELSE [same EXCEPT !.self.name_mangled = name_match]
        ELSE IF tag = S_DW_AT_decl_file
        THEN IF ~IsDecimal(add_info) THEN bad_int
             ELSE [same EXCEPT !.self.source_id = Some(int(add_info))]
        ELSE IF tag = S_DW_AT_decl_line
        THEN IF ~IsDecimal(add_info) THEN bad_int
             ELSE [same EXCEPT !.self.source_line = Some(int(add_info))]
        ELSE IF tag = S_DW_AT_decl_column
        THEN IF ~IsDecimal(add_info) THEN bad_int
             ELSE [same EXCEPT !.self.source_column = Some(int(add_info))]
        ELSE IF tag = S_DW_AT_name /\ self.header_tag = Some(S_DW_TAG_compile_unit)
        THEN LET source_file_match == last_token_regex_match(add_info)
             IN  IF source_file_match = None
                 THEN [same EXCEPT !.error =
                         Some("Unable to determine source filename from dwarf output")]
                 ELSE [same EXCEPT !.source_files =
                         registerSourceFile(source_files, source_file_match[1],
                                            self.header_id[1])]
        ELSE same

\* the part of the loop body of parseReadelfOutput on a header line with the
\* groups id and tag
parseReadelfOutput_header(self, id, tag) ==
    LET f == flushSymbolInfo([self EXCEPT !.header_id = Some(id), !.header_tag = Some(tag)],
                             symbols)
    IN  [self |-> f.self, symbols |-> f.symbols, source_files |-> source_files,
         error |-> None]

\* the branches of the loop body of parseReadelfOutput, on what the two
\* patterns matched
parseReadelfOutput_branch(self, header_line_match, info_line_match) ==
    IF header_line_match # None
    THEN parseReadelfOutput_header(self, header_line_match[1][1], header_line_match[1][2])
    ELSE IF info_line_match # None
    THEN parseReadelfOutput_info(self, info_line_match[1][1], info_line_match[1][2])
    ELSE [self |-> self, symbols |-> symbols, source_files |-> source_files,
          error |-> None]

\* one pass of the loop body of parseReadelfOutput: the collector, the symbol
\* table, the source files and the exception raised (or None) after it
parseReadelfOutput_body(self, line) ==
    parseReadelfOutput_branch(self, dbg_header_line_regex_match(line),
                              dbg_info_line_regex_match(line))

\* the run of readelf and the new collector, before the loop
gatherDebugInformation_begin ==
    /\ pc = "gatherDebugInformation"
    /\ InConstruction
    /\ phases' = Append(phases, "gatherDebugInformation")
    /\ tool_runs' = Append(tool_runs, "readelf --debug-dump=info")
    /\ info_collector' = EmptyInfoCollector
    /\ line_no' = 1
    /\ pc' = "readelf_loop"
    /\ UNCHANGED << env, regexVars, error, warnings, binutils_work, sizeVars, file_format,
                    source_files, symbols, num_symbols_dropped, instructions_available,
                    symbol_collector >>

\* the loop of parseReadelfOutput on the next line
parseReadelfOutput_line ==
    /\ pc = "readelf_loop"
    /\ InConstruction
    /\ line_no <= Len(splitlines(env.readelf))
    /\ \E r \in {parseReadelfOutput_body(info_collector, splitlines(env.readelf)[line_no])} :
           /\ info_collector' = r.self
           /\ symbols' = r.symbols
           /\ source_files' = r.source_files
           /\ error' = r.error
           /\ pc' = IF r.error # None THEN "raised" ELSE pc
           /\ line_no' = IF r.error # None THEN line_no ELSE line_no + 1
    /\ UNCHANGED << env, regexVars, warnings, tool_runs, phases, binutils_work, sizeVars,
                    file_format, num_symbols_dropped, instructions_available,
                    symbol_collector >>

\* after the loop: the last flush, and _gatherDebugInformation returns
parseReadelfOutput_end ==
    /\ pc = "readelf_loop"
    /\ InConstruction
    /\ line_no > Len(splitlines(env.readelf))
    /\ \E f \in {flushSymbolInfo(info_collector, symbols)} :
           /\ info_collector' = f.self
           /\ symbols' = f.symbols
    /\ pc' = Return("gatherDebugInformation")
    /\ UNCHANGED << env, regexVars, line_no, logVars, binutils_work, sizeVars, file_format,
                    source_files, num_symbols_dropped, instructions_available,
                    symbol_collector >>

\* Binary._initSymbols: init() on every symbol (the code visits them in the
\* order of their sorted keys)
initSymbols ==
    /\ pc = "initSymbols"
    /\ InConstruction
    /\ phases' = Append(phases, "initSymbols")
    /\ symbols' = [k \in DOMAIN symbols |-> Symbol_init(symbols[k])]
    /\ pc' = Return("initSymbols")
    /\ UNCHANGED << env, regexVars, line_no, error, warnings, tool_runs, binutils_work, sizeVars,
                    file_format, source_files, num_symbols_dropped,
                    instructions_available, symbol_collector, info_collector >>

\* ------------------------------------------------------------------------
\* main() of __main__.py
\* ------------------------------------------------------------------------
\* error_handling.WARNINGS_OCCURRED as main() reads it: the warning registry
\* reports that a warning was given
WARNINGS_OCCURRED == Len(warnings) > 0

\* the step of the run that the environment lets raise, raises
Raises(step) == env.raises = Some(step)

\* where main() goes on after Settings(...) and the dump of the document
\* structure: lines 67-74
AfterSettings ==
    IF env.mass_report THEN "writeMassReport"
    ELSE IF env.firmware_binary_defined THEN "exportDocument"
    ELSE "driver_template_file"

\* main(), lines 54-65: the flags, Settings(module_path) and the print of the
\* document structure
main_Settings ==
    /\ main_pc = "main"
    /\ errors_occurred' = FALSE
    /\ report_generated' = FALSE
    /\ IF Raises("Settings")
       THEN /\ main_steps' = Append(main_steps, "Settings")
            /\ main_error' = Some("Settings")
            /\ main_pc' = "except"
       ELSE IF env.dump_document_structure
       THEN /\ main_steps' = main_steps \o << "Settings", "getDocumentStructureDocString" >>
            /\ main_error' = IF Raises("getDocumentStructureDocString")
                             THEN Some("getDocumentStructureDocString") ELSE None
            /\ main_pc' = IF Raises("getDocumentStructureDocString")
                          THEN "except" ELSE AfterSettings
       ELSE /\ main_steps' = Append(main_steps, "Settings")
            /\ main_error' = None
            /\ main_pc' = AfterSettings
    /\ UNCHANGED << vars, exit_status >>

\* main(), lines 67-69
main_writeMassReport ==
    /\ main_pc = "writeMassReport"
    /\ main_steps' = Append(main_steps, "writeMassReport")
    /\ IF Raises("writeMassReport")
       THEN /\ main_error' = Some("writeMassReport")
            /\ main_pc' = "except"
            /\ UNCHANGED report_generated
       ELSE /\ report_generated' = TRUE
            /\ main_pc' = "driver_template_file"
            /\ UNCHANGED main_error
    /\ UNCHANGED << vars, errors_occurred, exit_status >>

\* exportDocument, lines 38-45: the plugins are registered; without a plugin
\* it returns, else generateDocument(settings) begins
exportDocument ==
    /\ main_pc = "exportDocument"
    /\ IF env.plugins = 0
       THEN /\ main_steps' = Append(main_steps, "registerPlugins")
            /\ report_generated' = TRUE
            /\ main_pc' = "driver_template_file"
       ELSE /\ main_steps' = main_steps \o << "registerPlugins", "generateDocument" >>
            /\ main_pc' = "generateDocument"
            /\ UNCHANGED report_generated
    /\ UNCHANGED << vars, main_error, errors_occurred, exit_status >>

\* exportDocument, lines 46-49, and line 72: the Binary is constructed, the
\* plugins export the document
exportDocument_export ==
    /\ main_pc = "generateDocument"
    /\ pc = "done"
    /\ main_steps' = Append(main_steps, "export")
    /\ IF Raises("export")
       THEN /\ main_error' = Some("export")
            /\ main_pc' = "except"
            /\ UNCHANGED report_generated
       ELSE /\ report_generated' = TRUE
            /\ main_pc' = "driver_template_file"
            /\ UNCHANGED main_error
    /\ UNCHANGED << vars, errors_occurred, exit_status >>

\* main(), lines 74-77
main_writeParameterTemplateFile ==
    /\ main_pc = "driver_template_file"
    /\ IF env.driver_template_file
       THEN /\ main_steps' = Append(main_steps, "writeParameterTemplateFile")
            /\ main_error' = IF Raises("writeParameterTemplateFile")
                             THEN Some("writeParameterTemplateFile") ELSE main_error
            /\ main_pc' = IF Raises("writeParameterTemplateFile")
                          THEN "except" ELSE "exit"
       ELSE /\ main_pc' = "exit"
            /\ UNCHANGED << main_steps, main_error >>
    /\ UNCHANGED << vars, errors_occurred, report_generated, exit_status >>

\* main(), lines 78-106: the handler of an exception of the try block, that
\* of the construction of the Binary included
main_except ==
    /\ \/ main_pc = "except"
       \/ main_pc = "generateDocument" /\ pc = "raised"
    /\ main_error' = IF main_pc = "except" THEN main_error ELSE error
    /\ errors_occurred' = TRUE
    /\ main_pc' = "exit"
    /\ UNCHANGED << vars, report_generated, exit_status, main_steps >>

\* an exit check that asks for errors only
main_exit_errors_only ==
    /\ main_pc = "exit"
    /\ IF errors_occurred
       THEN /\ exit_status' = Some(1)
            /\ main_pc' = "exited"
       ELSE /\ exit_status' = exit_status
            /\ main_pc' = "returned"
    /\ UNCHANGED << vars, main_error, errors_occurred, report_generated, main_steps >>

\* main(), lines 108-109
main_exit ==
    /\ main_pc = "exit"
    /\ IF WARNINGS_OCCURRED \/ errors_occurred
       THEN /\ exit_status' = Some(1)
            /\ main_pc' = "exited"
       ELSE /\ exit_status' = exit_status
            /\ main_pc' = "returned"
    /\ UNCHANGED << vars, main_error, errors_occurred, report_generated, main_steps >>

\* ------------------------------------------------------------------------
\* The environment: the arguments of Binary(...) and the output of the tools
\* ------------------------------------------------------------------------
MaxSizeLines == 2

MaxNmLines == 2

MaxDisLines == 3

MaxDbgLines == 3

SeqsUpTo(S, n) == UNION {[1..k -> S] : k \in 0..n}

SP == <<" ">>

TAB == <<"\t">>

S_foo == <<"f", "o", "o">>

S_bar == <<"b", "a", "r">>

S_baz == <<"b", "a", "z">>

S_Z3foov == <<"_", "Z", "3", "f", "o", "o", "v">>

S_foo_demangled == <<"f", "o", "o", "(", ")">>

S_Foo == <<"F", "o", "o">>

S_elf32_avr == <<"e", "l", "f", "3", "2", "-", "a", "v", "r">>

S_fw_elf == <<"f", "w", ".", "e", "l", "f">>

S_main_c == <<"m", "a", "i", "n", ".", "c">>

S_strp == <<"(", "s", "t", "r", "p", ")", ":">>

S_DW_TAG_subprogram ==
    <<"D", "W", "_", "T", "A", "G", "_", "s", "u", "b", "p", "r", "o", "g", "r", "a", "m">>

\* objdump -a: "\n<file>:     file format <format>\n<file>\n\n"
ArchiveOutput(format) ==
    << NL >> \o S_fw_elf \o <<":", " ", " ">> \o S_file_format \o SP \o format
             \o << NL >> \o S_fw_elf \o << NL, NL >>

ArchiveOutputs ==
    {ArchiveOutput(S_elf64_x86_64), ArchiveOutput(S_elf32_avr), << >>,
     S_fw_elf \o <<":", " ">> \o S_file_format \o << NL >>}

\* size: "   text\t   data\t    bss\t    dec\t    hex\tfilename"
SizeHeaderLine ==
    Concat(<< SP, <<"t", "e", "x", "t">>, TAB, <<"d", "a", "t", "a">>, TAB,
              <<"b", "s", "s">>, TAB, <<"d", "e", "c">>, TAB, <<"h", "e", "x">>, TAB,
              <<"f", "i", "l", "e", "n", "a", "m", "e">> >>)

\* size: "    100\t     50\t     20\t    170\t     aa\tfw.elf"
SizeLine(text, data, bss, dec) ==
    Concat(<< SP, SP, Dec(text), TAB, SP, Dec(data), TAB, Dec(bss), TAB, SP, Dec(dec),
              TAB, <<"a", "a">>, TAB, S_fw_elf >>)

SizePool ==
    {SizeHeaderLine,
     SizeLine(100, 50, 20, 170),
     SizeLine(0, 0, 0, 0),
     SizeLine(7, 3, 2, 12),
     Concat(<< Dec(1), SP, Dec(2), SP, Dec(3) >>),
     Concat(<< Dec(9), SP, Dec(8), TAB, Dec(7), SP, Dec(24), <<"x">> >>)}

GoodSizeOutput == Text(<< SizeHeaderLine, SizeLine(100, 50, 20, 170) >>)

BadSizeOutput == Text(<< <<"s", "i", "z", "e", ":", " ", "n", "o">> >>)

\* nm --print-size --size-sort --radix=d: "<address> <size> <kind> <name>"
NmLine(address, size, kind, name) ==
    Concat(<< Dec(address), SP, size, SP, << kind >>, SP, name >>)

NmNoise == <<"n", "m", ":", " ", "n", "o", " ", "s", "y", "m", "s">>

\* pairs << line of nm, line of nm -C >>
NmPair_foov  == << NmLine(4096, Dec(16), "T", S_Z3foov), NmLine(4096, Dec(16), "T", S_foo_demangled) >>

NmPair_foov2 == << NmLine(4096, Dec(32), "t", S_Z3foov), NmLine(4096, Dec(32), "t", S_foo_demangled) >>

NmPair_foovM == << NmLine(4096, Dec(16), "T", S_Z3foov), NmLine(4096, Dec(16), "T", S_Z3foov) >>

NmPair_bar   == << NmLine(4112, Dec(8), "D", S_bar), NmLine(4112, Dec(8), "D", S_bar) >>

NmPair_foo   == << NmLine(4128, Dec(1), "T", S_foo), NmLine(4128, Dec(1), "T", S_foo) >>

NmPair_noise == << NmNoise, NmNoise >>

NmPair_half  == << NmLine(4112, Dec(8), "D", S_bar), NmNoise >>

NmPair_hex   == << NmLine(4112, <<"1", "a">>, "D", S_bar), NmLine(4112, <<"1", "a">>, "D", S_bar) >>

\* the pairs in which both lines match the pattern and the size is decimal
WellFormedNmPairs == {NmPair_foov, NmPair_foov2, NmPair_foovM, NmPair_bar, NmPair_foo}

NmPairs == WellFormedNmPairs \cup {NmPair_noise, NmPair_half, NmPair_hex}

NmText(pairs, side) == Text([i \in 1..Len(pairs) |-> pairs[i][side]])

\* objdump -drwS
DisHeaderLine(address, name) == Concat(<< address, SP, <<"<">>, name, <<">", ":">> >>)

DisInstructionLine(address, bytes, text) == Concat(<< SP, address, <<":">>, TAB, bytes, TAB, text >>)

S_1000 == <<"1", "0", "0", "0">>

DisPool ==
    {DisHeaderLine(<<"0", "0">> \o S_1000, S_foo),
     DisHeaderLine(S_1000, S_bar),
     DisHeaderLine(S_1000, S_baz),
     DisInstructionLine(S_1000, <<"c", "3">>, S_retq),
     <<"r", "e", "t", "u", "r", "n", " ", "0", ";">>,
     << " ", "\t" >>}

\* readelf --debug-dump=info
DbgHeaderLine(abbrev, tag) ==
    Concat(<< SP, <<"<", "1", ">", "<", "2", "d", ">", ":">>, SP, S_Abbrev_Number, SP,
              Dec(abbrev), SP, <<"(">>, tag, <<")">> >>)

DbgInfoLine(tag, value) ==
    Concat(<< SP, SP, <<"<", "2", "e", ">">>, SP, SP, tag, SP, <<":">>, SP, value >>)

DbgPool ==
    {DbgHeaderLine(2, S_DW_TAG_subprogram),
     DbgHeaderLine(1, S_DW_TAG_compile_unit),
     DbgInfoLine(S_DW_AT_linkage_name, S_strp \o SP \o S_foo),
     DbgInfoLine(S_DW_AT_linkage_name, S_foo),
     DbgInfoLine(S_DW_AT_decl_file, Dec(1)),
     DbgInfoLine(S_DW_AT_decl_line, Dec(3) \o SP),
     DbgInfoLine(S_DW_AT_decl_column, <<"0", "x", "5">>),
     DbgInfoLine(S_DW_AT_name, S_strp \o SP \o S_main_c)}

\* the mangling files: the lines "_Z3foov", "foo()"; and a file with a map
\* that differs from the demangling of nm, and a last line without partner
ManglingFiles ==
    {Text(<< S_Z3foov, S_foo_demangled >>),
     Text(<< S_Z3foov, S_Foo, S_bar >>)}

\* the values of the argument mangling
Manglings ==
    {None, Some(Mangling(None)), Some(Mangling(Some([isfile |-> FALSE, content |-> << >>])))}
    \cup {Some(Mangling(Some([isfile |-> TRUE, content |-> c]))) : c \in ManglingFiles}

\* a binary on which every tool works
DefaultEnv ==
    [dump_document_structure |-> FALSE,
     mass_report |-> FALSE,
     firmware_binary_defined |-> TRUE,
     plugins |-> 1,
     driver_template_file |-> FALSE,
     raises |-> None,
     filename |-> "fw.elf",
     files |-> {"fw.elf"},
     symbol_selection_regex |-> None,
     symbol_exclusion_regex |-> None,
     mangling |-> None,
     objdump_a |-> ArchiveOutput(S_elf64_x86_64),
     size |-> GoodSizeOutput,
     nm |-> NmText(<< NmPair_foo, NmPair_bar >>, 1),
     nm_C |-> NmText(<< NmPair_foo, NmPair_bar >>, 2),
     objdump_d |-> Text(<< DisHeaderLine(S_1000, S_foo),
                           DisInstructionLine(S_1000, <<"c", "3">>, S_retq) >>),
     readelf |-> Text(<< DbgHeaderLine(2, S_DW_TAG_subprogram),
                         DbgInfoLine(S_DW_AT_linkage_name, S_strp \o SP \o S_foo),
                         DbgInfoLine(S_DW_AT_decl_line, Dec(3)) >>)]

\* the filename: empty, of no file, of a file
EnvFilename == {[DefaultEnv EXCEPT !.filename = f] : f \in {"", "missing.elf", "fw.elf"}}

\* the outputs of objdump -a and of size
EnvSize ==
    {[DefaultEnv EXCEPT !.objdump_a = a, !.size = Text(s)] :
        a \in ArchiveOutputs, s \in SeqsUpTo(SizePool, MaxSizeLines)}

\* the selection and the exclusion pattern, on the outputs of nm
EnvSelection ==
    {[DefaultEnv EXCEPT !.symbol_selection_regex = sel, !.symbol_exclusion_regex = exc,
                        !.nm = NmText(p, 1), !.nm_C = NmText(p, 2)] :
        sel \in {None, Some(S_foo)}, exc \in {None, Some(S_bar), Some(S_foo)},
        p \in SeqsUpTo({NmPair_foov, NmPair_foov2, NmPair_foovM, NmPair_bar, NmPair_foo,
                        NmPair_noise}, MaxNmLines)}

\* the mangling map and the reliability of the tools, on the outputs of nm
EnvMangling ==
    {[DefaultEnv EXCEPT !.mangling = m, !.size = s,
                        !.nm = NmText(p, 1), !.nm_C = NmText(p, 2)] :
        m \in Manglings, s \in {GoodSizeOutput, BadSizeOutput},
        p \in SeqsUpTo({NmPair_foov, NmPair_foovM, NmPair_bar, NmPair_noise}, MaxNmLines)}

\* the outputs of nm, well-formed or not, of the same number of lines or not
EnvNm ==
    {[DefaultEnv EXCEPT !.nm = NmText(p, 1), !.nm_C = NmText(p, 2)] :
        p \in SeqsUpTo(NmPairs, MaxNmLines)}
    \cup
    {[DefaultEnv EXCEPT !.nm = NmText(p, 1), !.nm_C = NmText(q, 2)] :
        p \in SeqsUpTo(WellFormedNmPairs, MaxNmLines), q \in {<< >>, << NmPair_bar >>}}

\* the disassembly, for two formats
EnvDisassembly ==
    {[DefaultEnv EXCEPT !.objdump_a = a, !.objdump_d = Text(d)] :
        a \in {ArchiveOutput(S_elf64_x86_64), ArchiveOutput(S_elf32_avr)},
        d \in SeqsUpTo(DisPool, MaxDisLines)}

\* lines with the byte c3 and the mnemonic retq, and lines close to them
UnifyPool ==
    {DisInstructionLine(S_1000, <<"c", "3">>, S_retq),
     DisInstructionLine(S_1000, <<"4", "8", " ", "c", "3">>, S_retq),
     DisInstructionLine(S_1000, <<"c", "3">>, S_ret),
     DisInstructionLine(S_1000, <<"c", "3">>, S_retq \o SP \o S_retq),
     DisInstructionLine(S_1000, <<"f", "3", " ", "c", "3">>, <<"r", "e", "p", "z">> \o SP \o S_retq),
     Concat(<< SP, S_1000, <<":", "c", "3">>, TAB, S_retq >>),
     Concat(<< <<"x">>, SP, <<"c", "3">>, SP, S_retq, <<";">> >>),
     DisHeaderLine(S_1000, <<"a">> \o SP \o <<"c", "3">> \o SP \o S_retq)}

\* the normalization of one line after the header of foo, for every format
EnvUnify ==
    {[DefaultEnv EXCEPT !.objdump_a = a,
                        !.objdump_d = Text(<< DisHeaderLine(<<"0", "0">> \o S_1000, S_foo), l >>)] :
        a \in ArchiveOutputs, l \in UnifyPool}

\* the debug information
EnvDebug == {[DefaultEnv EXCEPT !.readelf = Text(d)] : d \in SeqsUpTo(DbgPool, MaxDbgLines)}

\* the names in the debug information: of a known and of an unknown symbol,
\* of a source file, well-formed or not
DbgNamePool ==
    {DbgHeaderLine(1, S_DW_TAG_compile_unit),
     DbgHeaderLine(2, S_DW_TAG_subprogram),
     DbgInfoLine(S_DW_AT_linkage_name, S_strp \o SP \o S_baz),
     DbgInfoLine(S_DW_AT_linkage_name, S_strp \o SP \o S_foo),
     DbgInfoLine(S_DW_AT_decl_line, Dec(7)),
     DbgInfoLine(S_DW_AT_name, S_main_c)}

EnvDebugNames ==
    {[DefaultEnv EXCEPT !.readelf = Text(d)] : d \in SeqsUpTo(DbgNamePool, MaxDbgLines)}

S_return_0 == <<"r", "e", "t", "u", "r", "n", " ", "0", ";">>

\* a disassembly with two blocks of foo around a block of bar, an instruction
\* before the first header, a whitespace line and an empty line
TwoBlocks ==
    << DisInstructionLine(S_1000, <<"c", "3">>, S_retq),
       DisHeaderLine(<<"0", "0">> \o S_1000, S_foo),
       DisInstructionLine(S_1000, <<"c", "3">>, S_retq),
       << " ", "\t" >>,
       DisHeaderLine(S_1000, S_bar),
       S_return_0,
       << >>,
       DisHeaderLine(<<"0", "0">> \o S_1000, S_foo),
       S_return_0 >>

EnvTwoBlocks ==
    {[DefaultEnv EXCEPT !.objdump_a = a, !.objdump_d = Text(TwoBlocks)] :
        a \in ArchiveOutputs}

\* the settings of main() and the step that raises, around a construction
\* that completes, one that warns, and two that raise
MainSteps ==
    {"Settings", "getDocumentStructureDocString", "writeMassReport", "export",
     "writeParameterTemplateFile"}

EnvMain ==
    {[c EXCEPT !.dump_document_structure = d, !.mass_report = m,
               !.firmware_binary_defined = f, !.plugins = n,
               !.driver_template_file = t, !.raises = r] :
        c \in {DefaultEnv,
               [DefaultEnv EXCEPT !.size = BadSizeOutput],
               [DefaultEnv EXCEPT !.filename = "missing.elf"],
               [DefaultEnv EXCEPT !.readelf =
                   Text(<< DbgInfoLine(S_DW_AT_linkage_name, S_foo) >>)]},
        d \in BOOLEAN, m \in BOOLEAN, f \in BOOLEAN, n \in {0, 1}, t \in BOOLEAN,
        r \in {None} \cup {Some(step) : step \in MainSteps}}

\* entries of the dump: a header and the attributes under it
DbgEntries ==
    {<< DbgHeaderLine(2, S_DW_TAG_subprogram),
        DbgInfoLine(S_DW_AT_linkage_name, S_strp \o SP \o S_foo),
        DbgInfoLine(S_DW_AT_decl_file, Dec(1)),
        DbgInfoLine(S_DW_AT_decl_line, Dec(7)),
        DbgInfoLine(S_DW_AT_decl_column, Dec(5)) >>,
     << DbgHeaderLine(2, S_DW_TAG_subprogram),
        DbgInfoLine(S_DW_AT_linkage_name, S_strp \o SP \o S_foo),
        DbgInfoLine(S_DW_AT_decl_line, Dec(3)) >>,
     << DbgHeaderLine(2, S_DW_TAG_subprogram),
        DbgInfoLine(S_DW_AT_linkage_name, S_strp \o SP \o S_foo) >>,
     << DbgHeaderLine(2, S_DW_TAG_subprogram),
        DbgInfoLine(S_DW_AT_decl_column, Dec(5)),
        DbgInfoLine(S_DW_AT_linkage_name, S_strp \o SP \o S_bar) >>}

\* dumps of two entries
EnvDebugEntries ==
    {[DefaultEnv EXCEPT !.readelf = Text(first \o second)] :
        first \in DbgEntries, second \in DbgEntries}

\* patterns of the caller with metacharacters, and patterns that
\* re.compile rejects
PatternPool ==
    {<<"f", ".", "o">>, <<"^", "f", "o", "o", "$">>, <<"f", "o", "o", "|", "b", "a", "r">>,
     <<".", "*">>, <<"[", "f", "b", "]">>, <<"f", "o", "+">>, <<"(">>, <<"[">>}

\* the patterns of the pool as selection and as exclusion pattern, with
\* and without a filename
EnvPatterns ==
    {[DefaultEnv EXCEPT !.symbol_selection_regex = sel, !.symbol_exclusion_regex = exc,
                        !.filename = f] :
        sel \in {None} \cup {Some(p) : p \in PatternPool},
        exc \in {None} \cup {Some(p) : p \in PatternPool},
        f \in {"", "fw.elf"}}

RECURSIVE WithLineEnd(_, _)
\* the text with the line end e in place of "\n"
WithLineEnd(text, e) ==
    IF text = << >> THEN << >>
    ELSE LET n == SpanNot(text, 1, {"\n"})
         IN  IF n = Len(text) THEN text
             ELSE SubSeq(text, 1, n) \o e \o WithLineEnd(SubSeq(text, n + 2, Len(text)), e)

\* the outputs of the tools with other line ends
EnvLineEnds ==
    {[DefaultEnv EXCEPT !.objdump_a = WithLineEnd(@, e), !.size = WithLineEnd(@, e),
                        !.nm = WithLineEnd(@, e), !.nm_C = WithLineEnd(@, e),
                        !.objdump_d = WithLineEnd(@, e), !.readelf = WithLineEnd(@, e)] :
        e \in {<<"\r", "\n">>, <<"\r">>, <<"\f">>, <<"">>}}

\* numerals of a source line with a sign, with underscores, with blanks
EnvDebugNumbers ==
    {[DefaultEnv EXCEPT !.readelf =
         Text(<< DbgHeaderLine(2, S_DW_TAG_subprogram),
                 DbgInfoLine(S_DW_AT_linkage_name, S_strp \o SP \o S_foo),
                 DbgInfoLine(S_DW_AT_decl_line, v) >>)] :
        v \in {<<"-", "5">>, <<"+", "5">>, <<"1", "_", "0">>, <<"1", "_", "_", "0">>,
               <<"7", " ">>, <<"7", "">>}}

\* the numerals of as many digits as int() converts and of one digit more:
\* zeros and a last digit d
LongNumerals(d) ==
    {[k \in 1..(n - 1) |-> "0"] \o << d >> : n \in {int_max_str_digits, int_max_str_digits + 1}}

\* a line of four sizes 1 2 3 4, with the numeral in place of the k-th
LongSizeLine(k, numeral) ==
    Concat([j \in 1..4 |-> SP \o (IF j = k THEN numeral ELSE Dec(j))])

\* a pair of lines of nm for bar with the size as given
NmPair_sized(size) == << NmLine(4112, size, "D", S_bar), NmLine(4112, size, "D", S_bar) >>

\* long numerals as a size of the summary, as the size of a symbol that is
\* new or known, as a source location, and as a count of a repeat in a
\* pattern
EnvLongNumerals ==
    {[DefaultEnv EXCEPT !.size = Text(<< LongSizeLine(k, v), SizeLine(100, 50, 20, 170) >>)] :
        k \in 1..4, v \in LongNumerals("7")}
    \cup
    {[DefaultEnv EXCEPT !.nm = NmText(p \o << NmPair_sized(v) >>, 1),
                        !.nm_C = NmText(p \o << NmPair_sized(v) >>, 2)] :
        p \in {<< >>, << NmPair_bar >>}, v \in LongNumerals("9")}
    \cup
    {[DefaultEnv EXCEPT !.readelf =
         Text(<< DbgHeaderLine(2, S_DW_TAG_subprogram),
                 DbgInfoLine(S_DW_AT_linkage_name, S_strp \o SP \o S_foo),
                 DbgInfoLine(tag, v) >>)] :
        tag \in {S_DW_AT_decl_file, S_DW_AT_decl_line, S_DW_AT_decl_column},
        v \in LongNumerals("5")}
    \cup
    {[DefaultEnv EXCEPT !.symbol_selection_regex = sel, !.symbol_exclusion_regex = exc,
                        !.filename = f] :
        sel \in {None} \cup {Some(<<"f", "o", "{">> \o v \o <<"}">>) : v \in LongNumerals("2")},
        exc \in {None} \cup {Some(<<"b", "{", "1", ",">> \o v \o <<"}">>) : v \in LongNumerals("1")},
        f \in {"", "fw.elf"}}

Envs ==
    << EnvFilename, EnvSize, EnvSelection, EnvMangling, EnvNm, EnvDisassembly, EnvTwoBlocks,
       EnvUnify, EnvDebug, EnvDebugNames, EnvDebugEntries, EnvPatterns, EnvLineEnds,
       EnvDebugNumbers, EnvLongNumerals, EnvMain >>

\* ------------------------------------------------------------------------
\* The specification
\* ------------------------------------------------------------------------
Init ==
    /\ \E i \in DOMAIN Envs : env \in Envs[i]
    /\ pc = "Binary"
    /\ line_no = 1
    /\ error = None
    /\ warnings = << >>
    /\ tool_runs = << >>
    /\ phases = << >>
    /\ binutils_work = TRUE
    /\ text_size = 0 /\ data_size = 0 /\ bss_size = 0
    /\ overall_size = 0 /\ progmem_size = 0 /\ static_ram_size = 0
    /\ file_format = None
    /\ symbol_selection_regex_compiled = None
    /\ symbol_exclusion_regex_compiled = None
    /\ source_files = << >>
    /\ symbols = << >>
    /\ num_symbols_dropped = 0
    /\ instructions_available = None
    /\ symbol_collector = EmptyCollector
    /\ info_collector = EmptyInfoCollector
    /\ main_pc = "main"
    /\ main_error = None
    /\ errors_occurred = FALSE
    /\ report_generated = FALSE
    /\ exit_status = None
    /\ main_steps = << >>

Next ==
    \/ main_Settings
    \/ main_writeMassReport
    \/ exportDocument
    \/ exportDocument_export
    \/ main_writeParameterTemplateFile
    \/ main_except
    \/ main_exit
    \/ Binary_init
    \/ determineBinaryFileFormat
    \/ determineSymbolSizes
    \/ gatherSymbolProperties_begin
    \/ gatherSymbolProperties_line
    \/ gatherSymbolProperties_return
    \/ gatherSymbolInstructions_begin
    \/ gatherSymbolInstructions_line
    \/ gatherSymbolInstructions_end
    \/ gatherDebugInformation_begin
    \/ parseReadelfOutput_line
    \/ parseReadelfOutput_end
    \/ initSymbols

Spec == Init /\ [][Next]_<< vars, mainVars >>

\* ------------------------------------------------------------------------
\* Properties
\* ------------------------------------------------------------------------
\* the order of the phases as the specification states it
PhaseOrder ==
    << "determineBinaryFileFormat", "determineSymbolSizes", "gatherSymbolProperties",
       "gatherSymbolInstructions", "gatherDebugInformation", "initSymbols" >>

Range(f) == {f[x] : x \in DOMAIN f}

\* the phase a loop belongs to
LoopPhase ==
    [nm_loop |-> "gatherSymbolProperties", objdump_loop |-> "gatherSymbolInstructions",
     readelf_loop |-> "gatherDebugInformation"]

PhasesInOrder ==
    /\ \E n \in 0..Len(PhaseOrder) : phases = SubSeq(PhaseOrder, 1, n)
    /\ pc = "done" => phases = PhaseOrder
    /\ pc \in DOMAIN LoopPhase => phases # << >> /\ phases[Len(phases)] = LoopPhase[pc]
    /\ pc \in Range(PhaseOrder) =>
            phases = SubSeq(PhaseOrder, 1, Len(phases)) /\ PhaseOrder[Len(phases) + 1] = pc
    /\ symbols # << >> => Len(phases) >= 3
    /\ symbol_collector # EmptyCollector => Len(phases) >= 4

\* once symbol property extraction has started, binutils_work and file_format
\* change no more
ReliabilityAndFormatFixed ==
    Len(phases) >= 3 => binutils_work' = binutils_work /\ file_format' = file_format

\* C1: in a construction that completes, the six phases run once each, in
\* the order format, sizes, symbol properties, disassembly, debug
\* information, final pass, each after the one before it has returned; the
\* reliability of the tools and the file format are fixed before the first
\* symbol is created and before the first line of the disassembly is read
C1_PhasesRunOnceInOrder == [](PhasesInOrder) /\ [][ReliabilityAndFormatFixed]_vars

\* a construction is complete, with a symbol that has instructions, on an
\* output of size that made the tools unreliable
C1_Witness ==
    /\ pc = "done"
    /\ phases = PhaseOrder
    /\ ~binutils_work
    /\ file_format = Some(S_elf64_x86_64)
    /\ \E k \in DOMAIN symbols : symbols[k].instruction_lines # << >>

\* the errors the patterns of the caller raise when they are compiled
PatternErrors ==
    {compiled_optional(env.symbol_selection_regex).error,
     compiled_optional(env.symbol_exclusion_regex).error} \ {None}

\* C2: with an empty filename, or one that names no file, the construction
\* raises before any tool has run and before any phase has started, and
\* never completes; the error is the one of the filename unless a pattern
\* of the caller did not compile
C2_NoToolRunsWithoutFile ==
    (pc # "Binary" /\ (env.filename = "" \/ env.filename \notin env.files)) =>
        /\ pc = "raised"
        /\ IF PatternErrors = {}
           THEN error \in {Some("No binary filename defined"), Some("Unable to find filename")}
           ELSE error \in PatternErrors
        /\ tool_runs = << >>
        /\ phases = << >>

\* the construction has raised on the name of a file that does not exist
C2_Witness ==
    /\ pc = "raised"
    /\ env.filename # ""
    /\ env.filename \notin env.files
    /\ PatternErrors = {}
    /\ error = Some("Unable to find filename")
    /\ tool_runs = << >>

\* as many matches on both sides, and none of them is None
NmMatchesWellFormed(mangled, demangled) ==
    /\ Len(mangled) = Len(demangled)
    /\ \A i \in 1..Len(mangled) : mangled[i] # None /\ demangled[i] # None

NmMatches(lines) == [i \in 1..Len(lines) |-> nm_regex_match(lines[i])]

\* the two outputs of nm are well-formed: as many lines, and every line
\* matches the pattern
NmWellFormed ==
    NmMatchesWellFormed(NmMatches(splitlines(env.nm)), NmMatches(splitlines(env.nm_C)))

NoFilter == env.symbol_selection_regex = None /\ env.symbol_exclusion_regex = None

MangledNamesOf(matches) == {matches[i][1][3] : i \in {j \in 1..Len(matches) : matches[j] # None}}

\* the mangled names of the lines of nm that match the pattern
NmMangledNames == MangledNamesOf(NmMatches(splitlines(env.nm)))

\* the positions of a construction after symbol property extraction
AfterProperties ==
    {"gatherSymbolInstructions", "objdump_loop", "gatherDebugInformation", "readelf_loop",
     "initSymbols", "done"}

\* C3: on well-formed outputs of nm and without selection or exclusion
\* pattern, from the end of symbol property extraction on the keys of
\* symbols are the distinct mangled names of the output, each symbol stored
\* once under its own mangled name, and no symbol was dropped
C3_EveryMangledNameOnce ==
    (pc \in AfterProperties /\ NoFilter /\ NmWellFormed) =>
        /\ DOMAIN symbols = NmMangledNames
        /\ \A k \in DOMAIN symbols : symbols[k].name_mangled = k
        /\ num_symbols_dropped = 0

\* a complete construction on two well-formed lines of different symbols,
\* one of them with a display name that differs from its mangled name
C3_Witness ==
    /\ pc = "done"
    /\ NoFilter
    /\ NmWellFormed
    /\ Len(splitlines(env.nm)) = 2
    /\ DOMAIN symbols = {S_Z3foov, S_bar}
    /\ symbols[S_Z3foov].name = S_foo_demangled

\* names to filter and to demangle
SampleNames == {S_foo, S_bar, S_baz, S_Z3foov, S_foo_demangled, S_Foo, << >>}

\* the pattern of the caller matches at the start of the name
PatternMatches(pattern, name) == re_match(re_compile(pattern).node, name)

\* the decision table of the selection filter
SelectionTable(name) ==
    IF env.symbol_exclusion_regex # None
       /\ PatternMatches(env.symbol_exclusion_regex[1], name)
    THEN FALSE
    ELSE IF env.symbol_selection_regex = None THEN TRUE
    ELSE PatternMatches(env.symbol_selection_regex[1], name)

\* the Binary has its attributes: Binary.__init__ is past the patterns
Constructed == pc # "Binary" /\ ~(pc = "raised" /\ phases = << >>)

\* a pass of the loop over the lines of nm that drops its candidate changes
\* nothing but the counter
RejectionChangesNoSymbol ==
    (pc = "nm_loop" /\ num_symbols_dropped' # num_symbols_dropped) =>
        /\ num_symbols_dropped' = num_symbols_dropped + 1
        /\ symbols' = symbols
        /\ UNCHANGED << binutils_work, sizeVars, file_format, source_files,
                        instructions_available, symbol_collector, info_collector >>

\* C4: the selection filter rejects a name that the configured exclusion
\* pattern matches, whatever the selection pattern; else it accepts every
\* name when no selection pattern is configured; else it accepts exactly the
\* names the selection pattern matches; and a rejection changes no state of
\* the Binary but the counter of dropped symbols
C4_SelectionFilterTable ==
    /\ [](Constructed =>
              \A name \in SampleNames : isSymbolSelected(name) = SelectionTable(name))
    /\ [][RejectionChangesNoSymbol]_vars

\* both patterns are configured and match foo, a line of nm named foo, and
\* the candidate was dropped
C4_Witness ==
    /\ pc = "done"
    /\ env.symbol_selection_regex = Some(S_foo)
    /\ env.symbol_exclusion_regex = Some(S_foo)
    /\ S_foo \in NmMangledNames
    /\ S_foo \notin DOMAIN symbols
    /\ num_symbols_dropped >= 1

\* the mangling map that is loaded: the empty map when there is none
LoadedManglingMap ==
    IF env.mangling = None \/ env.mangling[1].mangling = None THEN << >>
    ELSE env.mangling[1].mangling[1]

\* C5: every symbol that symbol property extraction creates under a mangled
\* name A that the mangling map maps to B has the display name B and is
\* demangled, whatever name the output of nm -C carries on the line
C5_MapConsultedWithMangledName ==
    \A k \in DOMAIN symbols :
        k \in DOMAIN LoadedManglingMap =>
            symbols[k].name = LoadedManglingMap[k] /\ symbols[k].is_demangled

\* the chain of Binary.demangle as the specification states it
DemangleChain(name) ==
    IF name \in DOMAIN LoadedManglingMap THEN << LoadedManglingMap[name], TRUE >>
    ELSE IF binutils_work THEN << name, TRUE >>
    ELSE << name, FALSE >>

\* the argument mangling of a mangling file with the lines _Z3foov, foo()
FoovMangling ==
    Some(Mangling(Some([isfile |-> TRUE, content |-> Text(<< S_Z3foov, S_foo_demangled >>)])))

OnlyFoovListed ==
    /\ env.nm = NmText(<< NmPair_foov >>, 1)
    /\ env.nm_C = NmText(<< NmPair_foov >>, 2)

\* C6: Binary.demangle(N) is (B, true) when a loaded mangling map maps N to
\* B, else (N, true) when the tools are reliable, else (N, false); without
\* map and with reliable tools the lines "4096 16 T _Z3foov" of nm and
\* "4096 16 T foo()" of nm -C make the symbol _Z3foov with display name
\* foo(), size 16, kind T, demangled; and the mangling file with the lines
\* _Z3foov, foo() makes demangle(_Z3foov) = (foo(), true)
C6_DemangleChain ==
    /\ \A name \in SampleNames : demangle(name) = DemangleChain(name)
    /\ (pc \in AfterProperties /\ env.mangling = None /\ binutils_work /\ NoFilter
          /\ OnlyFoovListed) =>
            /\ DOMAIN symbols = {S_Z3foov}
            /\ symbols[S_Z3foov].name = S_foo_demangled
            /\ symbols[S_Z3foov].size = Some(16)
            /\ symbols[S_Z3foov].type_ = Some(<< "T" >>)
            /\ symbols[S_Z3foov].is_demangled
    /\ env.mangling = FoovMangling => demangle(S_Z3foov) = << S_foo_demangled, TRUE >>

\* a complete construction without map and without filter, with reliable
\* tools: the pair of lines of _Z3foov has made the only symbol, a demangled
\* one named foo(), of size 16 and kind T
C6_Witness ==
    /\ pc = "done"
    /\ env.mangling = None
    /\ binutils_work
    /\ NoFilter
    /\ OnlyFoovListed
    /\ DOMAIN symbols = {S_Z3foov}
    /\ symbols[S_Z3foov].name = S_foo_demangled
    /\ symbols[S_Z3foov].size = Some(16)
    /\ symbols[S_Z3foov].type_ = Some(<< "T" >>)
    /\ symbols[S_Z3foov].is_demangled

\* C7: with unreliable tools and a mangling map that resolves nothing, every
\* symbol that symbol property extraction creates has its own mangled name
\* as display name and is not demangled
C7_MangledNameWhenUnreliable ==
    \A k \in DOMAIN symbols :
        (~binutils_work /\ LoadedManglingMap = << >>) =>
            symbols[k].name = k /\ ~symbols[k].is_demangled

\* a pass of the loop over the disassembly on a line with the header match
\* header_match: on a header line of a name that is no key of symbols, and
\* on any line that is no header line while no symbol is current, no symbol
\* is made or changed and no symbol is current afterwards
DiscardsOn(header_match) ==
    /\ (header_match # None /\ header_match[1] \notin DOMAIN symbols) =>
            symbols' = symbols /\ symbol_collector'.cur_symbol = None
    /\ (header_match = None /\ symbol_collector.cur_symbol = None) =>
            symbols' = symbols /\ symbol_collector'.cur_symbol = None

UnknownHeaderDiscards ==
    (pc = "objdump_loop" /\ line_no <= Len(splitlines(env.objdump_d))) =>
        DiscardsOn(header_line_re_match(
                        unifyInstructionLine(splitlines(env.objdump_d)[line_no])))

\* C8: in the disassembly a header line of a name that is no key of symbols
\* makes no symbol and leaves no symbol current, also when one was current
\* before; the lines after it, up to the next header of a known symbol, are
\* appended to no symbol
C8_UnknownHeaderDiscardsLines == [][UnknownHeaderDiscards]_vars

\* the header of the known foo, the header of the unknown baz and an
\* instruction line have been read: no symbol is current and foo has no
\* instructions
C8_Witness ==
    /\ pc = "objdump_loop"
    /\ line_no = 4
    /\ splitlines(env.objdump_d)[1] = DisHeaderLine(<<"0", "0">> \o S_1000, S_foo)
    /\ splitlines(env.objdump_d)[2] = DisHeaderLine(S_1000, S_baz)
    /\ splitlines(env.objdump_d)[3] = DisInstructionLine(S_1000, <<"c", "3">>, S_retq)
    /\ S_foo \in DOMAIN symbols
    /\ S_baz \notin DOMAIN symbols
    /\ symbol_collector.cur_symbol = None
    /\ symbol_collector.symbols = << S_foo >>
    /\ symbol_collector.n_instruction_lines = 1
    /\ symbols[S_foo].instruction_lines = << >>

\* C9: after the disassembly was collected without any instruction line,
\* instructions_available is false, the warning is recorded and the
\* construction has not raised
C9_NoInstructionLinesNoInstructions ==
    (instructions_available # None /\ symbol_collector.n_instruction_lines = 0) =>
        /\ instructions_available = Some(FALSE)
        /\ "Unable to read assembly from binary" \in Range(warnings)
        /\ pc \in {"gatherDebugInformation", "readelf_loop", "initSymbols", "done"}

\* the lines that the pattern of the output of size matches
SizeLineHits(lines) == {i \in 1..Len(lines) : size_re_match(lines[i]) # None}

\* the six sizes are those of the four numbers in groups
SizesAre(groups) ==
    /\ text_size = int(groups[1])
    /\ data_size = int(groups[2])
    /\ bss_size = int(groups[3])
    /\ overall_size = int(groups[4])
    /\ progmem_size = int(groups[1]) + int(groups[2])
    /\ static_ram_size = int(groups[2]) + int(groups[3])

SizesOfFirstHit(lines, hits) ==
    hits # {} =>
        /\ SizesAre(size_re_match(lines[CHOOSE i \in hits : \A j \in hits : i <= j])[1])
        /\ binutils_work
        /\ lines[1] = SizeLine(100, 50, 20, 170) =>
                << text_size, data_size, bss_size, overall_size, progmem_size,
                   static_ram_size >> = << 100, 50, 20, 170, 150, 70 >>

SizesOfFirstMatchingLine(lines) == SizesOfFirstHit(lines, SizeLineHits(lines))

\* C10: once the sizes are extracted from an output with a matching line,
\* text, data, bss and overall are the four numbers of the first matching
\* line, whatever their values, progmem is text + data, static RAM is
\* data + bss, and the tools are reliable; the line of 100, 50, 20, 170
\* gives 100, 50, 20, 170, 150, 70
C10_SizesOfFirstMatchingLine ==
    Len(phases) >= 2 => SizesOfFirstMatchingLine(splitlines(env.size))

\* the size extraction has raised
SizeExtractionRaised == pc = "raised" /\ phases = SubSeq(PhaseOrder, 1, 2)

\* the numerals of the first matching line up to the first that has more
\* digits than int() converts: the whole line if there is none
ConvertedSizes(lines) ==
    LET groups == size_re_match(lines[FirstSizeLine(lines)])[1]
        long   == {k \in 1..4 : Len(groups[k]) > int_max_str_digits}
    IN  SubSeq(groups, 1, IF long = {} THEN 4 ELSE (CHOOSE k \in long : \A j \in long : k <= j) - 1)

\* what the size extraction does with the first matching line: it raises
\* exactly if one of the four numerals has more digits than int() converts,
\* with the sizes before that numeral assigned and the others still 0;
\* otherwise the sizes are as C10 states them
SizesUnlessTooLong ==
    Len(phases) >= 2 =>
        \A lines \in {splitlines(env.size)} :
            /\ SizeExtractionRaised <=>
                    FirstSizeLine(lines) # 0 /\ Len(ConvertedSizes(lines)) < 4
            /\ SizeExtractionRaised =>
                    /\ error = Some(ExceedsLimit)
                    /\ binutils_work
                    /\ \A sizes \in {ConvertedSizes(lines)} :
                           sizeVars = [k \in 1..6 |-> IF k <= Len(sizes) THEN int(sizes[k]) ELSE 0]
            /\ ~SizeExtractionRaised => SizesOfFirstMatchingLine(lines)

\* the third numeral of the first matching line has one digit more than
\* int() converts: the construction has raised with text and data assigned
SizesTooLong_Witness ==
    /\ SizeExtractionRaised
    /\ sizeVars = << 1, 2, 0, 0, 0, 0 >>
    /\ tool_runs = << "objdump -a", "size" >>

\* C11: once the sizes are extracted from an output without a matching
\* line, the tools are unreliable, the warning is recorded, the six sizes
\* are still 0, and the construction goes on with symbol property
\* extraction: if it raises at all, it raises in a later phase
C11_NoSizeLineDegrades ==
    (Len(phases) >= 2 /\ SizeLineHits(splitlines(env.size)) = {}) =>
        /\ ~binutils_work
        /\ "Unable to determine resource consumptions" \in Range(warnings)
        /\ sizeVars = << 0, 0, 0, 0, 0, 0 >>
        /\ Len(phases) = 2 => pc = "gatherSymbolProperties" /\ error = None
        /\ pc = "raised" => Len(phases) >= 3

\* a construction is complete on an output of size with a line that has
\* only three numbers: all phases have run, the sizes are 0
C11_Witness ==
    /\ pc = "done"
    /\ env.size = Text(<< Concat(<< Dec(1), SP, Dec(2), SP, Dec(3) >>) >>)
    /\ phases = PhaseOrder
    /\ ~binutils_work
    /\ warnings = << "Unable to determine resource consumptions" >>
    /\ sizeVars = << 0, 0, 0, 0, 0, 0 >>
    /\ DOMAIN symbols = {S_foo, S_bar}

\* the place of the mnemonic of a line that instruction_line_re matches and
\* whose byte group is the single byte c3 and whose mnemonic is retq; 0 for
\* every other line
SingleC3RetqAt(line) ==
    LET p0 == 1 + Span(line, 1, WhiteSpace)
        h  == Span(line, p0, HexDigit)
        b  == p0 + h + 1 + Span(line, p0 + h + 1, WhiteSpace)
        q  == b + 2 + Span(line, b + 2, WhiteSpace)
    IN  IF /\ instruction_line_re_match(line) # None
           /\ h > 0
           /\ CharIn(line, p0 + h, {":"})
           /\ HasAt(line, b, <<"c", "3">>)
           /\ q > b + 2
           /\ HasAt(line, q, S_retq)
           /\ (q + 4 > Len(line) \/ CharIn(line, q + 4, WhiteSpace))
        THEN q
        ELSE 0

\* the normalization of a line as stated: ret for retq on a line of the
\* single byte c3 in the 64-bit x86 format, every other line unchanged
StatedNormalization(line, q) ==
    IF file_format = Some(S_elf64_x86_64) /\ q > 0
    THEN SubSeq(line, 1, q - 1) \o S_ret \o SubSeq(line, q + 4, Len(line))
    ELSE line

NormalizedAsStated(line) ==
    unifyInstructionLine(line) = StatedNormalization(line, SingleC3RetqAt(line))

\* C12: every line that disassembly collection is about to read is
\* normalized as stated: retq becomes ret exactly on the instruction lines
\* of the single byte c3 in the 64-bit x86 format, and every other line, and
\* every line in another or an unset format, passes unchanged
C12_OnlySingleC3RetqRewritten ==
    (pc = "objdump_loop" /\ line_no <= Len(splitlines(env.objdump_d))) =>
        NormalizedAsStated(splitlines(env.objdump_d)[line_no])

DisassemblySteps == {"gatherSymbolInstructions", "objdump_loop"}

DebugSteps == {"gatherDebugInformation", "readelf_loop"}

\* the symbol after differs from the symbol before in nothing but the source
\* location
OnlySourceLocation(before, after) ==
    [after EXCEPT !.source_id = before.source_id,
                  !.source_line = before.source_line,
                  !.source_column = before.source_column] = before

CollectionKeepsKeys ==
    (pc \in DisassemblySteps \cup DebugSteps \cup {"initSymbols"}) =>
        /\ DOMAIN symbols' = DOMAIN symbols
        /\ num_symbols_dropped' = num_symbols_dropped
        /\ pc \in DisassemblySteps => source_files' = source_files
        /\ pc \in DebugSteps =>
              /\ \A k \in DOMAIN symbols : OnlySourceLocation(symbols[k], symbols'[k])
              /\ \A id \in DOMAIN source_files :
                    id \in DOMAIN source_files' /\ source_files'[id].id_ = id

\* C13: no step of disassembly collection, of debug information collection
\* or of the final initialisation adds or removes a key of symbols or changes
\* num_symbols_dropped; a step of debug information collection changes, on
\* the symbols, only source_id, source_line and source_column, and only adds
\* to or replaces entries of source_files
C13_CollectionKeepsKeys == [][CollectionKeepsKeys]_vars

\* a construction is through: the dump named foo with line 7, which foo now
\* carries next to its instruction, and the keys are those of the listing
C13_Witness ==
    /\ pc = "done"
    /\ env.readelf = Text(<< DbgHeaderLine(2, S_DW_TAG_subprogram),
                             DbgInfoLine(S_DW_AT_linkage_name, S_strp \o SP \o S_foo),
                             DbgInfoLine(S_DW_AT_decl_line, Dec(7)) >>)
    /\ DOMAIN symbols = {S_foo, S_bar}
    /\ num_symbols_dropped = 0
    /\ symbols[S_foo].source_line = Some(7)
    /\ symbols[S_foo].instruction_lines = << S_ret >>
    /\ symbols[S_bar].source_line = None

\* every stored symbol is stored under its own mangled name and carries a
\* display name the selection filter accepts
StoredUnderOwnNameAndSelected ==
    \A k \in DOMAIN symbols :
        /\ symbols[k].name_mangled = k
        /\ SelectionTable(symbols[k].name)

\* a stored symbol stays stored and keeps its names
StoredNamesKept ==
    \A k \in DOMAIN symbols :
        /\ k \in DOMAIN symbols'
        /\ symbols'[k].name = symbols[k].name
        /\ symbols'[k].name_mangled = symbols[k].name_mangled
        /\ symbols'[k].is_demangled = symbols[k].is_demangled

\* C14: in every state of a construction every symbol of the table is stored
\* under its own mangled name and its display name is accepted by the
\* selection filter; and no step, a later line of nm for the same mangled
\* name included, changes the display name a stored symbol carries
C14_StoredUnderOwnNameAndSelected ==
    /\ []StoredUnderOwnNameAndSelected
    /\ [][StoredNamesKept]_vars

\* the selection pattern is foo; nm lists _Z3foov twice, nm -C gives foo()
\* on the first line and _Z3foov on the second: the symbol still carries
\* foo()
C14_Witness ==
    /\ pc = "done"
    /\ env.symbol_selection_regex = Some(S_foo)
    /\ env.symbol_exclusion_regex = None
    /\ env.nm = NmText(<< NmPair_foov, NmPair_foovM >>, 1)
    /\ env.nm_C = NmText(<< NmPair_foov, NmPair_foovM >>, 2)
    /\ DOMAIN symbols = {S_Z3foov}
    /\ symbols[S_Z3foov].name = S_foo_demangled
    /\ symbols[S_Z3foov].name_mangled = S_Z3foov
    /\ num_symbols_dropped = 0

\* the number of pairs of lines of nm the loop is through with
NmLinesRead ==
    IF Len(phases) < 3 THEN 0
    ELSE IF Len(phases) = 3 THEN line_no - 1
    ELSE nm_pairs

\* pair i is the first pair of the mangled name it carries, and the filter
\* rejects the display name of its candidate
RejectedAt(lines_mangled, lines_demangled, i) ==
    /\ nm_regex_match(lines_mangled[i]) # None
    /\ nm_regex_match(lines_demangled[i]) # None
    /\ ~isSymbolSelected(demangle(nm_regex_match(lines_demangled[i])[1][3])[1])
    /\ \A j \in 1..(i - 1) :
          \/ nm_regex_match(lines_mangled[j]) = None
          \/ nm_regex_match(lines_mangled[j])[1][3] # nm_regex_match(lines_mangled[i])[1][3]

\* the mangled names of the candidates rejected among the first n pairs
RejectedNames(lines_mangled, lines_demangled, n) ==
    {nm_regex_match(lines_mangled[i])[1][3] :
        i \in {i \in 1..n : RejectedAt(lines_mangled, lines_demangled, i)}}

\* C15: a mangled name whose listing line was rejected by the selection
\* filter is not a key of symbols in any later state of the construction,
\* whatever the later lines of the listing carry
C15_RejectedNeverStored ==
    \A name_mangled \in RejectedNames(splitlines(env.nm), splitlines(env.nm_C), NmLinesRead) :
        name_mangled \notin DOMAIN symbols

\* the step on a line of nm whose mangled name is already a key: unless it
\* raises, size and type_ of that symbol are those of the line, and nothing
\* else of the table or the counter changes
DuplicateLineOverwrites(nm_match_mangled) ==
    (nm_match_mangled # None /\ nm_match_mangled[1][3] \in DOMAIN symbols) =>
        /\ num_symbols_dropped' = num_symbols_dropped
        /\ IF error' # None THEN symbols' = symbols
           ELSE symbols' =
                  [symbols EXCEPT
                      ![nm_match_mangled[1][3]].size = Some(int(nm_match_mangled[1][1])),
                      ![nm_match_mangled[1][3]].type_ = Some(nm_match_mangled[1][2])]

\* C16: a pass of property extraction on a line whose mangled name is
\* already a key of symbols assigns size and type_ of that line to the
\* existing symbol and changes nothing else: no key is added, the counter of
\* dropped symbols, the names of the symbol and every other symbol stay
C16_DuplicateOverwritesSizeAndKind ==
    [][(pc = "nm_loop" /\ line_no <= nm_pairs) =>
           DuplicateLineOverwrites(nm_regex_match(splitlines(env.nm)[line_no]))]_vars

\* nm listed _Z3foov with 16 T and then with 32 t: after the second line
\* the one symbol has size 32 and kind t and still the name foo()
C16_Witness ==
    /\ pc = "nm_loop"
    /\ line_no = 3
    /\ env.nm = NmText(<< NmPair_foov, NmPair_foov2 >>, 1)
    /\ env.nm_C = NmText(<< NmPair_foov, NmPair_foov2 >>, 2)
    /\ DOMAIN symbols = {S_Z3foov}
    /\ symbols[S_Z3foov].size = Some(32)
    /\ symbols[S_Z3foov].type_ = Some(<<"t">>)
    /\ symbols[S_Z3foov].name = S_foo_demangled
    /\ symbols[S_Z3foov].init_calls = 1
    /\ num_symbols_dropped = 0

\* one line more for symbol k: a header line makes its symbol current if the
\* table holds it and no symbol otherwise; while k is current an instruction
\* line adds its text, another line that is not blank adds itself between the
\* markers, and a blank line adds nothing
ReadForSymbol(so_far, line, k) ==
    IF header_line_re_match(line) # None
    THEN [so_far EXCEPT !.current = (header_line_re_match(line)[1] = k)]
    ELSE IF ~so_far.current THEN so_far
    ELSE IF instruction_line_re_match(line) # None
    THEN [so_far EXCEPT !.instructions = Append(@, instruction_line_re_match(line)[1])]
    ELSE IF \E i \in 1..Len(line) : line[i] \notin WhiteSpace
    THEN [so_far EXCEPT !.instructions =
             Append(@, SOURCE_CODE_START_TAG \o line \o SOURCE_CODE_END_TAG)]
    ELSE so_far

RECURSIVE ReadLinesForSymbol(_, _, _)
\* the first n normalized lines read for symbol k, in input order
ReadLinesForSymbol(lines, n, k) ==
    IF n = 0 THEN [current |-> FALSE, instructions |-> << >>]
    ELSE ReadForSymbol(ReadLinesForSymbol(lines, n - 1, k), unifyInstructionLine(lines[n]), k)

\* the number of lines of the disassembly the collection is through with
DisLinesRead(lines) ==
    IF Len(phases) < 4 THEN 0
    ELSE IF pc = "objdump_loop" THEN line_no - 1
    ELSE Len(lines)

InstructionsAsRead(lines, n) ==
    \A k \in DOMAIN symbols :
        symbols[k].instruction_lines = ReadLinesForSymbol(lines, n, k).instructions

\* C17: at every point of a construction the instructions of every symbol
\* are exactly, in input order, the instruction texts and the texts between
\* markers of the non-blank other lines read so far while the symbol was
\* current, over all blocks of the symbol; blank lines and lines read while
\* no symbol is current add nothing
C17_InstructionsAsRead ==
    InstructionsAsRead(splitlines(env.objdump_d), DisLinesRead(splitlines(env.objdump_d)))

\* the disassembly of two blocks of foo around a block of bar is read, in
\* the x86 format
C17_Witness ==
    /\ pc = "done"
    /\ env.objdump_d = Text(TwoBlocks)
    /\ file_format = Some(S_elf64_x86_64)
    /\ symbols[S_foo].instruction_lines =
          << S_ret, SOURCE_CODE_START_TAG \o S_return_0 \o SOURCE_CODE_END_TAG >>
    /\ symbols[S_bar].instruction_lines =
          << SOURCE_CODE_START_TAG \o S_return_0 \o SOURCE_CODE_END_TAG >>

\* the pending record of the collector is empty
NothingPending(self) ==
    /\ self.name_mangled = None
    /\ self.source_id = None
    /\ self.source_line = None
    /\ self.source_column = None

\* the step copies the pending fields onto the symbol of the pending name if
\* that name is set and a key, changes no symbol otherwise, and leaves
\* nothing pending
FlushesPending ==
    /\ NothingPending(info_collector')
    /\ symbols' =
          IF /\ info_collector.name_mangled # None
             /\ info_collector.name_mangled[1] \in DOMAIN symbols
          THEN [symbols EXCEPT
                   ![info_collector.name_mangled[1]].source_id = info_collector.source_id,
                   ![info_collector.name_mangled[1]].source_line = info_collector.source_line,
                   ![info_collector.name_mangled[1]].source_column =
                       info_collector.source_column]
          ELSE symbols

\* a step of the loop over the dump: a flush on a header line and at the end
\* of the input, no change of a symbol on any other line
FlushOnHeaderAndEnd(lines) ==
    pc = "readelf_loop" =>
        IF line_no > Len(lines) \/ dbg_header_line_regex_match(lines[line_no]) # None
        THEN FlushesPending
        ELSE symbols' = symbols

\* C18: the debug information collector flushes and clears its pending
\* record on every header line and once at the end of the input, and on no
\* other line changes a symbol; a flush copies the pending source location
\* onto a symbol only if the pending mangled name is set and is a key of
\* symbols, so a location read under one header never reaches a symbol
\* named under another
C18_FlushOnHeaderAndEnd == [][FlushOnHeaderAndEnd(splitlines(env.readelf))]_vars

\* the dump named foo, then a header came, then line 7: the construction is
\* through and foo carries no line
C18_Witness ==
    /\ pc = "done"
    /\ env.readelf = Text(<< DbgInfoLine(S_DW_AT_linkage_name, S_strp \o SP \o S_foo),
                             DbgHeaderLine(2, S_DW_TAG_subprogram),
                             DbgInfoLine(S_DW_AT_decl_line, Dec(7)) >>)
    /\ S_foo \in DOMAIN symbols
    /\ symbols[S_foo].source_line = None
    /\ NothingPending(info_collector)
    /\ info_collector.header_tag = Some(S_DW_TAG_subprogram)

\* the step raises the exception and leaves the tables, the collector and
\* the place in the dump as they are
AbortsWith(message) ==
    /\ pc' = "raised"
    /\ error' = Some(message)
    /\ UNCHANGED << symbols, source_files, info_collector, line_no, num_symbols_dropped >>

\* the step on an attribute line with the groups tag and add_info
MalformedNameAborts(tag, add_info) ==
    /\ (tag = S_DW_AT_linkage_name /\ last_token_regex_match(add_info) = None) =>
            AbortsWith("Undeciferable info line")
    /\ (/\ tag = S_DW_AT_name
        /\ info_collector.header_tag = Some(S_DW_TAG_compile_unit)
        /\ last_token_regex_match(add_info) = None) =>
            AbortsWith("Unable to determine source filename from dwarf output")
    /\ (tag = S_DW_AT_name /\ info_collector.header_tag # Some(S_DW_TAG_compile_unit)) =>
            UNCHANGED << pc, error, symbols, source_files, info_collector >>

\* the step on what the two patterns matched on the line
MalformedNameStep(header_line_match, info_line_match) ==
    (header_line_match = None /\ info_line_match # None) =>
        MalformedNameAborts(info_line_match[1][1], info_line_match[1][2])

\* C19: a line of the dump with the tag DW_AT_linkage_name, or with the tag
\* DW_AT_name under a compile unit header, whose value has no last token
\* raises at that line: the tables and the pending record stay as they are,
\* no step follows the exception, no Binary results; a DW_AT_name line under a
\* header of another tag, or under no header, changes nothing
C19_MalformedNameAborts ==
    [][/\ pc # "raised"
       /\ (pc = "readelf_loop" /\ line_no <= Len(splitlines(env.readelf))) =>
              MalformedNameStep(dbg_header_line_regex_match(splitlines(env.readelf)[line_no]),
                                dbg_info_line_regex_match(splitlines(env.readelf)[line_no]))
      ]_vars

\* foo and line 3 are pending when the third line names no token: the
\* exception stands, the record is still pending and foo has no line
C19_Witness ==
    /\ pc = "raised"
    /\ error = Some("Undeciferable info line")
    /\ env.readelf = Text(<< DbgInfoLine(S_DW_AT_linkage_name, S_strp \o SP \o S_foo),
                             DbgInfoLine(S_DW_AT_decl_line, Dec(3) \o SP),
                             DbgInfoLine(S_DW_AT_linkage_name, S_foo) >>)
    /\ line_no = 3
    /\ info_collector.name_mangled = Some(S_foo)
    /\ info_collector.source_line = Some(3)
    /\ symbols[S_foo].source_line = None
    /\ phases = SubSeq(PhaseOrder, 1, 5)

\* the exceptions of a malformed linkage name and of a malformed name of a
\* compile unit
MalformedNameErrors ==
    {Some("Undeciferable info line"),
     Some("Unable to determine source filename from dwarf output")}

\* C20: the construction for an existing file, with patterns that compile,
\* raises only on a malformed linkage name or compile unit name of the
\* debug information dump: no output of objdump -a, size, nm, nm -C or
\* objdump -drwS makes it raise, whatever its lines are, and no other line
\* of the dump does
C20_OnlyMalformedNamesAbort ==
    (pc = "raised" /\ env.filename # "" /\ isfile(env.filename) /\ PatternErrors = {}) =>
        error \in MalformedNameErrors

\* an exception was raised in the run: by a step of main() or by the
\* construction of the Binary
ErrorRaised == main_error # None \/ error # None

\* main() is through: it called sys.exit(1) exactly if an exception was
\* raised or the registry reports a warning, and returned otherwise
ExitStatusOfRun ==
    /\ main_pc = "exited" =>
          exit_status = Some(1) /\ (ErrorRaised \/ WARNINGS_OCCURRED)
    /\ main_pc = "returned" =>
          exit_status = None /\ ~ErrorRaised /\ ~WARNINGS_OCCURRED

\* after an exception no step of the run is started: no phase of the
\* construction, no tool, no export, no template, no report
NoStepAfterError ==
    ErrorRaised =>
        /\ main_steps' = main_steps
        /\ report_generated' = report_generated
        /\ UNCHANGED << phases, tool_runs, symbols, source_files >>

\* C21: main() ends the process with exit status 1 whenever an exception was
\* raised anywhere in the run, the construction of the Binary included, or
\* the warning registry reports a warning, and returns normally only when
\* neither happened; after an exception no further step of the run (export
\* of the report, writing of the parameter template) is started
C21_ExitStatusOfRun ==
    /\ []ExitStatusOfRun
    /\ [][NoStepAfterError]_<< vars, mainVars >>

\* the dump names no token for the linkage name and a template file is
\* asked for: the process exits with 1, nothing was exported, no template
\* was written
C21_Witness ==
    /\ main_pc = "exited"
    /\ exit_status = Some(1)
    /\ env.driver_template_file
    /\ env.raises = None
    /\ error = Some("Undeciferable info line")
    /\ main_error = error
    /\ errors_occurred
    /\ ~report_generated
    /\ main_steps = << "Settings", "registerPlugins", "generateDocument" >>

\* the header lines of the disassembly that name a key of symbols
KnownHeaderLines(lines) ==
    {i \in 1..Len(lines) :
        /\ header_line_re_match(unifyInstructionLine(lines[i])) # None
        /\ header_line_re_match(unifyInstructionLine(lines[i]))[1] \in DOMAIN symbols}

\* the lines of the disassembly recognized as instruction lines
RecognizedInstructionLines(lines) ==
    {i \in 1..Len(lines) :
        /\ header_line_re_match(unifyInstructionLine(lines[i])) = None
        /\ instruction_line_re_match(unifyInstructionLine(lines[i])) # None}

FlagByHeadersWarningByLines(lines) ==
    /\ instructions_available = Some(KnownHeaderLines(lines) # {})
    /\ symbol_collector.symbols # << >> <=> KnownHeaderLines(lines) # {}
    /\ "Unable to read assembly from binary" \in Range(warnings)
          <=> RecognizedInstructionLines(lines) = {}

\* C22: after disassembly collection instructions_available is TRUE exactly
\* when a header line named a key of symbols, that is when the collector
\* submitted a symbol, however many instruction lines were recognized; the
\* warning is given exactly when no instruction line was recognized, so the
\* flag and the warning can disagree
C22_FlagByHeadersWarningByLines ==
    instructions_available # None => FlagByHeadersWarningByLines(splitlines(env.objdump_d))

\* the disassembly is the header of foo alone: the flag is TRUE and the
\* warning is given
C22_Witness ==
    /\ pc = "done"
    /\ env.objdump_d = Text(<< DisHeaderLine(<<"0", "0">> \o S_1000, S_foo) >>)
    /\ instructions_available = Some(TRUE)
    /\ symbol_collector.n_instruction_lines = 0
    /\ warnings = << "Unable to read assembly from binary" >>

\* pair i carries a candidate the filter rejects: both lines match, no
\* earlier pair of the same mangled name was accepted, and the filter
\* rejects the display name of the pair
RejectedLine(lines_mangled, lines_demangled, i) ==
    /\ nm_regex_match(lines_mangled[i]) # None
    /\ nm_regex_match(lines_demangled[i]) # None
    /\ ~isSymbolSelected(demangle(nm_regex_match(lines_demangled[i])[1][3])[1])
    /\ \A j \in 1..(i - 1) :
          \/ nm_regex_match(lines_mangled[j]) = None
          \/ nm_regex_match(lines_mangled[j])[1][3] # nm_regex_match(lines_mangled[i])[1][3]
          \/ ~isSymbolSelected(demangle(nm_regex_match(lines_demangled[j])[1][3])[1])

\* the rejected ones among the first n pairs of lines
RejectedLines(lines_mangled, lines_demangled, n) ==
    {i \in 1..n : RejectedLine(lines_mangled, lines_demangled, i)}

\* the mangled names the first n lines of nm carry
ListedNames(lines_mangled, n) ==
    {nm_regex_match(lines_mangled[i])[1][3] :
        i \in {i \in 1..n : nm_regex_match(lines_mangled[i]) # None}}

\* C23: num_symbols_dropped is 0 until property extraction and from then on
\* the number of the pairs of lines read so far whose candidate the
\* selection filter rejected, a mangled name counting once for every line
\* on which it is rejected
C23_DroppedCountsRejectedLines ==
    num_symbols_dropped =
        Cardinality(RejectedLines(splitlines(env.nm), splitlines(env.nm_C), NmLinesRead))

\* the exclusion pattern is foo and nm lists _Z3foov twice, as foo(): two
\* candidates are dropped and no symbol is stored, for one listed name
C23_Witness ==
    /\ pc = "done"
    /\ env.symbol_exclusion_regex = Some(S_foo)
    /\ env.nm = NmText(<< NmPair_foov, NmPair_foov2 >>, 1)
    /\ env.nm_C = NmText(<< NmPair_foov, NmPair_foov2 >>, 2)
    /\ num_symbols_dropped = 2
    /\ DOMAIN symbols = {}
    /\ ListedNames(splitlines(env.nm), 2) = {S_Z3foov}
    /\ Cardinality(DOMAIN symbols) + num_symbols_dropped
          > Cardinality(ListedNames(splitlines(env.nm), 2))

\* the entry read so far is flushed: a named entry joins the flushed ones
\* with its three fields, None for what it lacks
EntryFlushed(so_far) ==
    [name |-> None, id |-> None, line |-> None, column |-> None,
     flushed |-> IF so_far.name = None THEN so_far.flushed
                 ELSE Append(so_far.flushed,
                             << so_far.name[1], << so_far.id, so_far.line, so_far.column >> >>)]

\* an attribute of the entry read so far
EntryAttribute(so_far, tag, add_info) ==
    IF tag = S_DW_AT_linkage_name THEN [so_far EXCEPT !.name = last_token_regex_match(add_info)]
    ELSE IF tag = S_DW_AT_decl_file THEN [so_far EXCEPT !.id = Some(int(add_info))]
    ELSE IF tag = S_DW_AT_decl_line THEN [so_far EXCEPT !.line = Some(int(add_info))]
    ELSE IF tag = S_DW_AT_decl_column
    THEN [so_far EXCEPT !.column = Some(int(add_info))]
    ELSE so_far

\* one line more of the dump
EntryLine(so_far, header_line_match, info_line_match) ==
    IF header_line_match # None THEN EntryFlushed(so_far)
    ELSE IF info_line_match # None
    THEN EntryAttribute(so_far, info_line_match[1][1], info_line_match[1][2])
    ELSE so_far

RECURSIVE EntriesRead(_, _)
\* the first n lines of the dump
EntriesRead(lines, n) ==
    IF n = 0
    THEN [name |-> None, id |-> None, line |-> None, column |-> None, flushed |-> << >>]
    ELSE CHOOSE entry \in {EntryLine(so_far, header_line_match, info_line_match) :
                               so_far \in {EntriesRead(lines, n - 1)},
                               header_line_match \in {dbg_header_line_regex_match(lines[n])},
                               info_line_match \in {dbg_info_line_regex_match(lines[n])}} : TRUE

\* the entries of the dump flushed so far
EntriesFlushed(lines) ==
    IF Len(phases) = 5 /\ pc # "initSymbols"
    THEN EntriesRead(lines, line_no - 1).flushed
    ELSE CHOOSE flushed \in {EntryFlushed(so_far).flushed :
                                 so_far \in {EntriesRead(lines, Len(lines))}} : TRUE

\* the three fields of the last of the flushed entries that names k
LocationByEntries(flushed, k) ==
    IF \A i \in DOMAIN flushed : flushed[i][1] # k THEN << None, None, None >>
    ELSE flushed[CHOOSE i \in DOMAIN flushed :
                     /\ flushed[i][1] = k
                     /\ \A j \in DOMAIN flushed : j > i => flushed[j][1] # k][2]

LastEntryWins(flushed) ==
    \A k \in DOMAIN symbols :
        << symbols[k].source_id, symbols[k].source_line, symbols[k].source_column >>
            = LocationByEntries(flushed, k)

\* C24: at every point of a construction the three source fields of a
\* symbol are those of the last flushed entry of the dump that carries its
\* linkage name, for all three together and with None for a field that
\* entry did not give, whatever earlier entries of that name gave
C24_LastEntryWins ==
    [](IF Len(phases) < 5 THEN LastEntryWins(<< >>)
       ELSE \A lines \in {splitlines(env.readelf)} :
                \A flushed \in {EntriesFlushed(lines)} : LastEntryWins(flushed))

\* the dump has an entry of foo with file 1, line 7, column 5 and then an
\* entry of foo without attributes: foo ends without a source location
C24_Witness ==
    /\ pc = "done"
    /\ env.readelf =
          Text(<< DbgHeaderLine(2, S_DW_TAG_subprogram),
                  DbgInfoLine(S_DW_AT_linkage_name, S_strp \o SP \o S_foo),
                  DbgInfoLine(S_DW_AT_decl_file, Dec(1)),
                  DbgInfoLine(S_DW_AT_decl_line, Dec(7)),
                  DbgInfoLine(S_DW_AT_decl_column, Dec(5)),
                  DbgHeaderLine(2, S_DW_TAG_subprogram),
                  DbgInfoLine(S_DW_AT_linkage_name, S_strp \o SP \o S_foo) >>)
    /\ symbols[S_foo].source_id = None
    /\ symbols[S_foo].source_line = None
    /\ symbols[S_foo].source_column = None
====
